---------------------------- MODULE Spec2Model ----------------------------
(***************************************************************************)
(* A model of minemeld-core's polling miner (minemeld/ft/basepoller.py)    *)
(* and of its IPv4 range aggregator (minemeld/ft/ipop.py).                 *)
(*                                                                         *)
(* SpecAgg   : the aggregator, AggregateIPv4FT, over a small address line. *)
(* SpecMiner : the miner, BasePollerFT, with its two workers and a clock,  *)
(*             while it runs.                                              *)
(* SpecLifecycle : the miner from start to stop.                           *)
(***************************************************************************)
EXTENDS Integers, Sequences, FiniteSets, Bags, TLC

(***************************************************************************)
(* Bounds of the model.                                                    *)
(***************************************************************************)
MaxAddr == 2
MaxEntries == 3

(* Python's None, for integer-valued fields. *)
None == -1

Min(S) == CHOOSE x \in S : \A y \in S : x <= y
Max(S) == CHOOSE x \in S : \A y \in S : x >= y

(***************************************************************************)
(*                        THE AGGREGATOR (ipop.py)                         *)
(***************************************************************************)
VARIABLES
    atable,       \* AggregateIPv4FT.table: indicator+origin -> record
    st,           \* AggregateIPv4FT.st: the interval store
    view          \* the ranges that the emits have left in a downstream node

aggVars == <<atable, st, view>>

(***************************************************************************)
(* The state of the miner.                                                 *)
(***************************************************************************)
VARIABLES
    clock,            \* utc_millisec()
    state,            \* BaseFT.state
    mtable,           \* BasePollerFT.table: indicator -> record
    last_run,         \* BasePollerFT.last_run
    last_ageout_run,  \* BasePollerFT.last_ageout_run
    rebuild_flag,     \* BasePollerFT.rebuild_flag
    poll_event,       \* BasePollerFT.poll_event (set or clear)
    lock,             \* BasePollerFT.state_lock
    age_out,          \* BasePollerFT.age_out: sudden_death and default
    glet,             \* the poll worker, _run: its position and locals
    ageout_glet,      \* the age-out worker, _age_out_run
    statistics,       \* BaseFT.statistics: the counter 'error.polling'
    active_requests,  \* BasePollerFT.active_requests: the tasks alive
    stop_pc,          \* the position of a call of stop
    hist              \* what has been emitted and observed so far

minerVars == <<clock, state, mtable, last_run, last_ageout_run, rebuild_flag,
               poll_event, lock, age_out, glet, ageout_glet, statistics,
               active_requests, stop_pc, hist>>

VARIABLES
    taxii             \* TaxiiClient: its fields and the place of its pass

vars == <<aggVars, minerVars, taxii>>

(* No poll response, no request and no collection information yet. *)
NoMessage == [more |-> FALSE, result_id |-> "", result_part_number |-> 0]
NoRequest == [kind |-> "none", result_id |-> "", result_part_number |-> 0]
NoCollection ==
    [found |-> FALSE, polling_service_instances |-> None,
     collection_type |-> ""]

(* TaxiiClient.__init__, taxii.py:51-56, before the first pass. *)
TaxiiConstructed ==
    [pc |-> "wait", now |-> None, tryn |-> 0,
     last_taxii_run |-> None, collection_mgmt_service |-> None,
     poll_service |-> None, begin |-> None, end |-> None,
     request |-> NoRequest, service_instances |-> {},
     tci |-> NoCollection, tm |-> NoMessage,
     indicators |-> <<>>, received |-> <<>>, result |-> <<>>,
     last_end |-> None]

(* The lock of a miner whose workers are not running. *)
RWLock == [num_readers |-> 0, num_writers |-> 0, w |-> 1, r |-> 1]

(* The miner as __init__ leaves it, basepoller.py:173-186. *)
MinerConstructed ==
    /\ taxii = TaxiiConstructed
    /\ clock = 1
    /\ state = "READY"
    /\ mtable = <<>>
    /\ last_run = None
    /\ last_ageout_run = None
    /\ rebuild_flag = FALSE
    /\ poll_event = FALSE
    /\ lock = RWLock
    /\ age_out = [sudden_death |-> TRUE, default |-> [base |-> "none", offset |-> 0]]
    /\ glet = [pc |-> "none", lastrun |-> None, now |-> None, tryn |-> 0,
               n |-> 0, wake |-> 0]
    /\ ageout_glet = [pc |-> "none", now |-> None, todo |-> <<>>,
                      cur |-> "", wake |-> 0]
    /\ statistics = [error_polling |-> 0]
    /\ active_requests = {}
    /\ stop_pc = "idle"
    /\ hist = [pollActed |-> FALSE, updates |-> 0, steady |-> TRUE,
               observed |-> {}, sd |-> "idle", armed |-> FALSE, wds |-> 0,
               again |-> FALSE, last |-> "off",
               sent |-> {}, hups |-> None, busy |-> 0, served |-> 0]

(* ipop.py:13, WL_LEVEL = st.MAX_LEVEL; level 1 is every other source. *)
WL_LEVEL == 254

(* The sources of the aggregator and its 'whitelists' configuration. *)
Sources == {"S1", "S2", "WL"}
whitelists == {"WL"}

(* st.ST.max_endpoint, 2^32-1 in the program: the last address of the line. *)
max_endpoint == MaxAddr
Addrs == 0..max_endpoint

(***************************************************************************)
(* Indicator strings. "A-B" is [form |-> "range", a |-> A, b |-> B],       *)
(* "A" is [form |-> "single", a |-> A, b |-> 0] and "A/len" is             *)
(* [form |-> "cidr", a |-> A, b |-> h] with h = 32-len host bits.          *)
(***************************************************************************)
Pow2(h) == IF h = 0 THEN 1 ELSE IF h = 1 THEN 2 ELSE 4

_range_from_indicator(indicator) ==
    IF indicator.form = "range" THEN <<indicator.a, indicator.b>>
    ELSE IF indicator.form = "cidr"
         THEN <<indicator.a, indicator.a + Pow2(indicator.b) - 1>>
         ELSE <<indicator.a, indicator.a>>

(* The indicators upstream nodes send, one string for each range of the   *)
(* line: an address as "A", an aligned pair as "A/31", the rest as "A-B". *)
IndicatorInputs ==
    {[form |-> "range", a |-> p[1], b |-> p[2]] :
        p \in {q \in Addrs \X Addrs :
                  q[2] > q[1] + 1 \/ (q[2] = q[1] + 1 /\ q[1] % 2 = 1)}}
    \cup {[form |-> "single", a |-> x, b |-> 0] : x \in Addrs}
    \cup {[form |-> "cidr", a |-> x, b |-> 1] : x \in {z \in Addrs : z % 2 = 0}}

ValidIndicators ==
    {i \in IndicatorInputs :
        /\ _range_from_indicator(i)[1] <= _range_from_indicator(i)[2]
        /\ _range_from_indicator(i)[2] <= max_endpoint}

(***************************************************************************)
(* The interval store st.ST: a set of [id, start, end, level].             *)
(***************************************************************************)
STput(S, id, start, end, level) ==
    S \cup {[id |-> id, start |-> start, end |-> end, level |-> level]}

STdelete(S, id, start, end, level) ==
    S \ {[id |-> id, start |-> start, end |-> end, level |-> level]}

(* st.cover(point): the intervals that contain the point. *)
STcover(S, point) == {c \in S : c.start <= point /\ point <= c.end}

(* st.query_endpoints(start, stop, include_start): the endpoint addresses *)
(* of the stored intervals in [start, stop]; None is the end of the line.  *)
STquery_endpoints(S, start, stop, include_start) ==
    LET lo == IF start = None THEN 0 ELSE start
        hi == IF stop = None THEN max_endpoint ELSE stop
        all == {c.start : c \in S} \cup {c.end : c \in S}
    IN  {e \in all : /\ lo <= e
                     /\ e <= hi
                     /\ (include_start \/ e # lo)}

(***************************************************************************)
(* MWUpdate: a range with its set of uuids; equal when start and end are.  *)
(***************************************************************************)
MWUpdate(start, end, uuids) == [start |-> start, end |-> end, uuids |-> uuids]

MWEq(u, ou) == u.start = ou.start /\ u.end = ou.end

(* set.add of Python: an element equal to a member is not added. *)
SetAdd(result, u) ==
    IF \E o \in result : MWEq(o, u) THEN result ELSE result \cup {u}

(* set difference of Python on MWUpdate. *)
SetMinus(A, B) == {u \in A : ~ \E o \in B : MWEq(u, o)}

(***************************************************************************)
(* _calc_ipranges: the sweep over the endpoints of the window.             *)
(***************************************************************************)
EpLevel(cov) == IF cov = {} THEN 0 ELSE Max({c.level : c \in cov})

(* ipop.py:164 and 175: a range is added only below the whitelist level. *)
EmitAllowed_NoLevelCheck(eplevel) == TRUE

EmitAllowed(eplevel) == eplevel < WL_LEVEL

(* ipop.py:167: the range closed by a start endpoint ends just below it. *)
StartRangeEnd_Inclusive(epaddr) == epaddr

StartRangeEnd(epaddr) == epaddr - 1

(* ipop.py:179: after an end endpoint the next range starts just above it. *)
OepAfterEnd_Same(epaddr) == epaddr

OepAfterEnd(epaddr) == epaddr + 1

RECURSIVE CalcSweep(_, _, _, _, _)
CalcSweep(S, eps, oep, live_ids, result) ==
    IF eps = {} THEN result
    ELSE
      LET epaddr == Min(eps)
          cov == STcover(S, epaddr)
          eplevel == EpLevel(cov)
          start_ids == {c.id : c \in {x \in cov : x.start = epaddr}}
          end_ids == {c.id : c \in {x \in cov : x.end = epaddr}}
          live1 == live_ids \cup
                   {c.id : c \in {x \in cov : x.end # epaddr /\ x.start # epaddr}}
          res1 == IF /\ start_ids # {}
                     /\ oep # None
                     /\ oep # epaddr
                     /\ live1 # {}
                     /\ EmitAllowed(eplevel)
                  THEN SetAdd(result, MWUpdate(oep, StartRangeEnd(epaddr), live1))
                  ELSE result
          oep1 == IF start_ids # {} THEN epaddr ELSE oep
          live2 == IF start_ids # {} THEN live1 \cup start_ids ELSE live1
          res2 == IF /\ end_ids # {}
                     /\ oep1 # None
                     /\ live2 # {}
                     /\ EmitAllowed(eplevel)
                  THEN SetAdd(res1, MWUpdate(oep1, epaddr, live2))
                  ELSE res1
          oep2 == IF end_ids # {} THEN OepAfterEnd(epaddr) ELSE oep1
          live3 == IF end_ids # {} THEN live2 \ end_ids ELSE live2
      IN  CalcSweep(S, eps \ {epaddr}, oep2, live3, res2)

_calc_ipranges(S, start, end) ==
    CalcSweep(S, STquery_endpoints(S, start, end, TRUE), None, {}, {})

(***************************************************************************)
(* _endpoints_from_range: the search window around [start, end].           *)
(***************************************************************************)
_endpoints_from_range(S, start, end) ==
    LET below == STquery_endpoints(S, 0, Max({start - 1, 0}), TRUE)
        above == STquery_endpoints(S, Min({end + 1, max_endpoint}),
                                   max_endpoint, FALSE)
    IN  <<IF below = {} THEN None ELSE Max(below),
          IF above = {} THEN None ELSE Min(above)>>

(***************************************************************************)
(* _add_indicator: the record of indicator+origin; on the first insert it  *)
(* gets a fresh _id (uuid4, an identifier no other record has: here the    *)
(* key of the record).                                                     *)
(***************************************************************************)
Key(indicator, origin) == <<indicator, origin>>

_add_indicator(t, origin, indicator) ==
    LET k == Key(indicator, origin)
        added == k \notin DOMAIN t
        v == IF added THEN [_id |-> k] ELSE [_id |-> t[k]._id]
    IN  [table |-> [x \in DOMAIN t \cup {k} |-> IF x = k THEN v ELSE t[x]],
         v |-> v,
         added |-> added]

SourceLevel(source) == IF source \in whitelists THEN WL_LEVEL ELSE 1

(* The emits that follow the second _calc_ipranges in both handlers. *)
DiffUpdates(rangesb, rangesa) ==
    LET added == SetMinus(rangesa, rangesb)
        changed == {u \in rangesa \ added :
                       \E ou \in rangesb : MWEq(u, ou) /\ u.uuids # ou.uuids}
    IN  SetToBag(added) (+) SetToBag(changed)

DiffWithdraws_Swapped(rangesb, rangesa) == SetToBag(SetMinus(rangesa, rangesb))

DiffWithdraws(rangesb, rangesa) == SetToBag(SetMinus(rangesb, rangesa))

(***************************************************************************)
(* filtered_update: the table and the store it leaves, and its emits (the  *)
(* emit_update and emit_withdraw calls, as bags of ranges).                *)
(***************************************************************************)
NoEffect(t, S) ==
    [table |-> t, st |-> S, updates |-> EmptyBag, withdraws |-> EmptyBag]

(* ipop.py:231-255: the record, the level and the interval put in st. *)
UpdateStore(t, S, source, indicator) ==
    LET ai == _add_indicator(t, source, indicator)
        rng == _range_from_indicator(indicator)
    IN  STput(S, ai.v._id, rng[1], rng[2], SourceLevel(source))

(* ipop.py:225-226: the test on the type of the value. *)
IsIPv4_AnyIP(vtype) == vtype \in {"IPv4", "IPv6"}
IsIPv4(vtype) == vtype = "IPv4"

filtered_update(t, S, source, indicator, vtype) ==
    IF ~ IsIPv4(vtype)
    THEN NoEffect(t, S)
    ELSE
      LET ai == _add_indicator(t, source, indicator)
          rng == _range_from_indicator(indicator)
          win == _endpoints_from_range(S, rng[1], rng[2])
          rangesb == _calc_ipranges(S, win[1], win[2])
          pre == IF ~ ai.added /\ source \notin whitelists
                 THEN SetToBag(rangesb) ELSE EmptyBag
          st1 == UpdateStore(t, S, source, indicator)
          rangesa == _calc_ipranges(st1, win[1], win[2])
      IN  [table |-> ai.table,
           st |-> st1,
           updates |-> pre (+) DiffUpdates(rangesb, rangesa),
           withdraws |-> DiffWithdraws(rangesb, rangesa)]

(* What a downstream node holds after emit_update for the ranges U, each  *)
(* keyed by its indicator string "start-end", and after emit_withdraw for  *)
(* the ranges W.                                                           *)
ViewUpdate(v, U) == {r \in v : ~ \E u \in U : MWEq(r, u)} \cup U

ViewWithdraw(v, W) == {r \in v : ~ \E w \in W : MWEq(r, w)}

(* The emits of a handler in the order of the code, ipop.py:246-282 and    *)
(* 316-335: the ranges before the change when an indicator is sent again,  *)
(* then the added and the changed ranges, then the removed ones.           *)
ViewEmits(v, pre, rangesb, rangesa) ==
    ViewWithdraw(ViewUpdate(ViewUpdate(v, pre),
                            BagToSet(DiffUpdates(rangesb, rangesa))),
                 BagToSet(DiffWithdraws(rangesb, rangesa)))

(* The view downstream after filtered_update. *)
ViewAfterUpdate(v, t, S, source, indicator) ==
    LET ai == _add_indicator(t, source, indicator)
        rng == _range_from_indicator(indicator)
        win == _endpoints_from_range(S, rng[1], rng[2])
        rangesb == _calc_ipranges(S, win[1], win[2])
        pre == IF ~ ai.added /\ source \notin whitelists THEN rangesb ELSE {}
        rangesa == _calc_ipranges(UpdateStore(t, S, source, indicator),
                                  win[1], win[2])
    IN  ViewEmits(v, pre, rangesb, rangesa)

(* The handler as a step: the emits go downstream. *)
FilteredUpdate(source, indicator, vtype) ==
    /\ IF ~ IsIPv4(vtype)
       THEN UNCHANGED <<atable, st, view>>
       ELSE /\ Cardinality(DOMAIN atable \cup {Key(indicator, source)})
                 <= MaxEntries
            /\ atable' = _add_indicator(atable, source, indicator).table
            /\ st' = UpdateStore(atable, st, source, indicator)
            /\ view' = ViewAfterUpdate(view, atable, st, source, indicator)
    /\ UNCHANGED <<minerVars, taxii>>

(***************************************************************************)
(* filtered_withdraw                                                       *)
(***************************************************************************)
(* ipop.py:296-308: the interval deleted from st. *)
WithdrawStore(t, S, source, indicator) ==
    LET rng == _range_from_indicator(indicator)
    IN  STdelete(S, t[Key(indicator, source)]._id, rng[1], rng[2],
                 SourceLevel(source))

filtered_withdraw(t, S, source, indicator) ==
    LET k == Key(indicator, source)
    IN
    IF k \notin DOMAIN t
    THEN NoEffect(t, S)
    ELSE
      LET rng == _range_from_indicator(indicator)
          win == _endpoints_from_range(S, rng[1], rng[2])
          rangesb == _calc_ipranges(S, win[1], win[2])
          st1 == WithdrawStore(t, S, source, indicator)
          rangesa == _calc_ipranges(st1, win[1], win[2])
      IN  [table |-> [x \in DOMAIN t \ {k} |-> t[x]],
           st |-> st1,
           updates |-> DiffUpdates(rangesb, rangesa),
           withdraws |-> DiffWithdraws(rangesb, rangesa)]

(* The view downstream after filtered_withdraw of a known indicator. *)
ViewAfterWithdraw(v, t, S, source, indicator) ==
    LET rng == _range_from_indicator(indicator)
        win == _endpoints_from_range(S, rng[1], rng[2])
        rangesb == _calc_ipranges(S, win[1], win[2])
        rangesa == _calc_ipranges(WithdrawStore(t, S, source, indicator),
                                  win[1], win[2])
    IN  ViewEmits(v, {}, rangesb, rangesa)

FilteredWithdraw(source, indicator) ==
    /\ LET k == Key(indicator, source)
       IN  IF k \notin DOMAIN atable
           THEN UNCHANGED <<atable, st, view>>
           ELSE /\ atable' = [x \in DOMAIN atable \ {k} |-> atable[x]]
                /\ st' = WithdrawStore(atable, st, source, indicator)
                /\ view' = ViewAfterWithdraw(view, atable, st, source,
                                             indicator)
    /\ UNCHANGED <<minerVars, taxii>>

InitAgg ==
    /\ MinerConstructed
    /\ atable = <<>>
    /\ st = {}
    /\ view = {}

NextAgg ==
    \/ \E source \in Sources, indicator \in ValidIndicators,
          vtype \in {"IPv4", "IPv6"} :
          FilteredUpdate(source, indicator, vtype)
    \/ \E source \in Sources, indicator \in ValidIndicators :
          FilteredWithdraw(source, indicator)

SpecAgg == InitAgg /\ [][NextAgg]_vars

(***************************************************************************)
(*                       THE MINER (basepoller.py)                         *)
(***************************************************************************)

(* Bounds of the miner's model: the last instant of the clock, the polling *)
(* interval and the age-out check interval (in clock ticks), the offset of *)
(* an age-out expression, and the length of a feed.                        *)
MaxTime == 3
Interval == 2
AgeOutInterval == 1
AgeOffset == 1
MaxFeedLen == 2
MaxErrors == 2

(* The most calls of hup the model counts between two clears of the event. *)
MaxHups == 2

(* basepoller.py:194, the default of num_retries. *)
num_retries == 2

(* basepoller.py:35, ((1 << 32)-1)*1000: later than every instant. *)
_MAX_AGE_OUT == MaxTime + AgeOffset + Interval + 1

(* basepoller.py:39-42, the masks of IndicatorStatus. *)
D_MASK == 1
F_MASK == 2
A_MASK == 4
W_MASK == 8

(* The indicators of the feed and the values of their one attribute. *)
Indicators == {"X"}
Confs == {1, 2}

(***************************************************************************)
(* utils.RWLock, the readers-writer lock of the state: the numbers of     *)
(* readers and of writers, the semaphore w that the first reader and each *)
(* writer hold, and the semaphore r that the first writer holds to keep   *)
(* new readers out.  A release raises the semaphore whoever holds it.     *)
(***************************************************************************)
CanRLock(l) == l.r >= 1 /\ (l.num_readers >= 1 \/ l.w >= 1)

RLock(l) ==
    [l EXCEPT !.num_readers = @ + 1,
              !.w = IF l.num_readers = 0 THEN @ - 1 ELSE @]

RUnlock(l) ==
    [l EXCEPT !.num_readers = @ - 1,
              !.w = IF l.num_readers = 1 THEN @ + 1 ELSE @]

CanLock(l) == (l.num_writers = 0 => l.r >= 1) /\ l.w >= 1

Lock(l) ==
    [l EXCEPT !.num_writers = @ + 1,
              !.r = IF l.num_writers = 0 THEN @ - 1 ELSE @,
              !.w = @ - 1]

Unlock(l) ==
    [l EXCEPT !.w = @ + 1,
              !.num_writers = @ - 1,
              !.r = IF l.num_writers = 1 THEN @ + 1 ELSE @]

(***************************************************************************)
(* Table records and the feed.                                             *)
(***************************************************************************)
(* basepoller.py:191-192: the name of the source, and the attributes that *)
(* the configuration gives to every indicator.                             *)
source_name == "miner"
attributes == [confidence |-> Max(Confs)]

Record(fs, ls, lr, ao, wd, c) ==
    [sources |-> <<source_name>>, first_seen |-> fs, last_seen |-> ls,
     _last_run |-> lr, _age_out |-> ao, _withdrawn |-> wd, confidence |-> c]

(* dict.update on one attribute: the value of na where na has the key. *)
DictUpdate_Keep(old, na) == old
DictUpdate(old, na) == IF na = None THEN old ELSE na

TablePut(t, i, v) == [x \in DOMAIN t \cup {i} |-> IF x = i THEN v ELSE t[x]]

TableDelete(t, S) == [x \in DOMAIN t \ S |-> t[x]]

(* table.query(index, to_key): the keys whose indexed attribute is set and *)
(* at most to_key.                                                         *)
QueryAgeOut(t, to_key) == {i \in DOMAIN t : t[i]._age_out <= to_key}

QueryLastRun(t, to_key) == {i \in DOMAIN t : t[i]._last_run <= to_key}

QueryWithdrawn(t, to_key) ==
    {i \in DOMAIN t : t[i]._withdrawn # None /\ t[i]._withdrawn <= to_key}

(* A feed item: an indicator and the attributes observed with it. *)
Items == {[indicator |-> i, confidence |-> c] : i \in Indicators, c \in Confs}

Feeds == UNION {[1..n -> Items] : n \in 0..MaxFeedLen}

(* The items that _process_item can give: the confidence may be missing.  *)
ObservedItems ==
    {[indicator |-> i, confidence |-> c] :
        i \in Indicators, c \in Confs \cup {None}}

(***************************************************************************)
(* IndicatorStatus: the state of an indicator of the feed.                 *)
(***************************************************************************)
IndicatorStatus_NoD(t, indicator, now, in_feed_threshold) ==
    IF indicator \notin DOMAIN t THEN 0
    ELSE (IF t[indicator]._age_out < now THEN A_MASK ELSE 0)
         + (IF t[indicator]._last_run >= in_feed_threshold THEN F_MASK ELSE 0)
         + (IF t[indicator]._withdrawn # None THEN W_MASK ELSE 0)

IndicatorStatus(t, indicator, now, in_feed_threshold) ==
    IF indicator \notin DOMAIN t THEN 0
    ELSE D_MASK
         + (IF t[indicator]._age_out < now THEN A_MASK ELSE 0)
         + (IF t[indicator]._last_run >= in_feed_threshold THEN F_MASK ELSE 0)
         + (IF t[indicator]._withdrawn # None THEN W_MASK ELSE 0)

NX == 0
NFNANW == D_MASK
XFNANW == D_MASK + F_MASK
NFXANW == D_MASK + A_MASK
XFXANW == D_MASK + F_MASK + A_MASK
NFNAXW == D_MASK + W_MASK
XFNAXW == D_MASK + F_MASK + W_MASK
NFXAXW == D_MASK + A_MASK + W_MASK
XFXAXW == D_MASK + F_MASK + A_MASK + W_MASK

(***************************************************************************)
(* _calc_age_out                                                           *)
(***************************************************************************)
_calc_age_out(sel, v) ==
    IF sel.base = "none" THEN _MAX_AGE_OUT
    ELSE (IF sel.base = "first_seen" THEN v.first_seen ELSE v.last_seen)
         + sel.offset

(* _compare_attributes(oa, na): the observed attributes equal the stored. *)
_compare_attributes_Never(oa, na) == FALSE

_compare_attributes_Always(oa, na) == TRUE

_compare_attributes(oa, na) ==
    na.confidence # None => oa.confidence = na.confidence

(* basepoller.py:342-344. *)
InFeedThreshold(lr, now) == IF lr = None THEN now - Interval ELSE lr

(* The record of an indicator that is new to the table, before its        *)
(* _age_out is calculated: basepoller.py:359-364.                          *)
NewRecord_LastSeenUnset(now, item) ==
    Record(now, 0, now, None, None,
           DictUpdate(attributes.confidence, item.confidence))
NewRecord(now, item) ==
    Record(now, now, now, None, None,
           DictUpdate(attributes.confidence, item.confidence))

(* The record of an indicator that is aged out and still in the feed:     *)
(* basepoller.py:387-390.                                                  *)
Refreshed_AgeOutReset(cv, sel, now) ==
    [cv EXCEPT !._last_run = now,
               !._age_out = _calc_age_out(sel, [cv EXCEPT !.first_seen = now,
                                                          !.last_seen = now])]
Refreshed(cv, sel, now) == [cv EXCEPT !._last_run = now]

(***************************************************************************)
(* One turn of the loop of _polling_loop over the pairs of an item: the    *)
(* table it leaves, whether it emits update, and the value it emits.       *)
(***************************************************************************)
ProcessItem(t, sel, item, now, in_feed_threshold) ==
    LET indicator == item.indicator
        istatus == IndicatorStatus(t, indicator, now, in_feed_threshold)
    IN
    IF istatus \in {NX, NFNANW, NFXANW, NFXAXW, NFNAXW}
    THEN LET v0 == NewRecord(now, item)
             v == [v0 EXCEPT !._age_out = _calc_age_out(sel, v0)]
         IN  [table |-> TablePut(t, indicator, v), update |-> TRUE,
              value |-> v]
    ELSE IF istatus = XFNANW
    THEN LET cv == t[indicator]
             eq == _compare_attributes(cv, item)
             v1 == [cv EXCEPT !._last_run = now,
                              !.confidence = DictUpdate(@, item.confidence)]
             v == [v1 EXCEPT !._age_out = _calc_age_out(sel, v1)]
         IN  [table |-> TablePut(t, indicator, v), update |-> ~ eq,
              value |-> IF eq THEN None ELSE v]
    ELSE IF istatus = XFXANW
    THEN [table |-> TablePut(t, indicator, Refreshed(t[indicator], sel, now)),
          update |-> FALSE, value |-> None]
    ELSE IF istatus \in {XFXAXW, XFNAXW}
    THEN [table |-> TablePut(t, indicator,
                             [t[indicator] EXCEPT !._last_run = now,
                                                  !._withdrawn = now]),
          update |-> FALSE, value |-> None]
    ELSE [table |-> t, update |-> FALSE, value |-> None]

(* _polling_loop over a whole feed: the table it leaves and the number of *)
(* updates it emits.                                                       *)
RECURSIVE PollingLoop(_, _, _, _, _, _)
PollingLoop(t, sel, feed, now, in_feed_threshold, emitted) ==
    IF feed = <<>> THEN [table |-> t, updates |-> emitted]
    ELSE LET r == ProcessItem(t, sel, Head(feed), now, in_feed_threshold)
         IN  PollingLoop(r.table, sel, Tail(feed), now, in_feed_threshold,
                         emitted + (IF r.update THEN 1 ELSE 0))

(* An item of the feed on which _process_item raises, and the items of a  *)
(* feed as the source delivers them.                                       *)
Unparseable == [indicator |-> "?", confidence |-> None]

RawItems == Items \cup {Unparseable}

RawFeeds == UNION {[1..n -> RawItems] : n \in 0..MaxFeedLen}

(* _process_item raises on the item: basepoller.py:329-332. *)
Raises(item) == item = Unparseable

(* What is left to the loop after the handler of basepoller.py:332-334:   *)
(* the items after the failing one.                                        *)
AfterParseError_Abort(feed) == <<>>

AfterParseError(feed) == Tail(feed)

(* _polling_loop over the items of a feed, basepoller.py:328-402: the     *)
(* table it leaves and the updates it emits, in the order of the emits.    *)
RECURSIVE PollingLoopItems(_, _, _, _, _, _)
PollingLoopItems(t, sel, feed, now, in_feed_threshold, emits) ==
    IF feed = <<>> THEN [table |-> t, emits |-> emits]
    ELSE IF Raises(Head(feed))
    THEN PollingLoopItems(t, sel, AfterParseError(feed), now,
                          in_feed_threshold, emits)
    ELSE LET r == ProcessItem(t, sel, Head(feed), now, in_feed_threshold)
         IN  PollingLoopItems(r.table, sel, Tail(feed), now,
                              in_feed_threshold,
                              IF r.update
                              THEN Append(emits, <<Head(feed).indicator,
                                                   r.value>>)
                              ELSE emits)

(***************************************************************************)
(* _sudden_death and _collect_garbage                                      *)
(***************************************************************************)
_sudden_death(t, lr) ==
    IF lr = None THEN t
    ELSE [i \in DOMAIN t |->
            IF i \in QueryLastRun(t, lr)
            THEN [t[i] EXCEPT !._age_out = lr - 1] ELSE t[i]]

_collect_garbage_Inclusive(t, t0) == TableDelete(t, QueryWithdrawn(t, t0))
_collect_garbage(t, t0) == TableDelete(t, QueryWithdrawn(t, t0 - 1))

(***************************************************************************)
(* What the model remembers of the run so far.                             *)
(***************************************************************************)
MaxCount == 2

(* The indicator the properties follow, and the attribute value of a feed *)
(* that lists it with identical attributes.                                *)
Tracked == "X"
SteadyConf == Min(Confs)

Sat(n) == IF n >= MaxCount THEN MaxCount ELSE n + 1

(* The configurations under which the model counts the updates of the    *)
(* indicator (no age-out at all, an empty table to start with), and under *)
(* which it follows its sudden death (no age-out interval).               *)
CountsUpdates ==
    ~ age_out.sudden_death /\ age_out.default.base = "none" /\ ~ rebuild_flag

FollowsSuddenDeath == age_out.sudden_death /\ age_out.default.base = "none"

(* The poll worker has observed an item of the feed. *)
HistItem(hs, item, update) ==
    LET tracked == item.indicator = Tracked
        steady == hs.steady /\ (tracked => item.confidence = SteadyConf)
    IN  [hs EXCEPT !.pollActed = TRUE,
                   !.observed = @ \cup {item.indicator},
                   !.steady = IF CountsUpdates THEN steady ELSE @,
                   !.updates = IF ~ CountsUpdates \/ ~ steady THEN 0
                               ELSE IF update /\ tracked THEN Sat(@) ELSE @,
                   !.sd = IF tracked /\ @ \in {"missed", "due"}
                          THEN "idle" ELSE @,
                   !.wds = IF tracked THEN 0 ELSE @,
                   !.armed = IF tracked THEN FALSE ELSE @,
                   !.last = IF @ # "off" /\ tracked /\ update
                            THEN "update" ELSE @,
                   !.sent = IF hs.last # "off" /\ update
                            THEN @ \cup {item.indicator} ELSE @]

(* A pass of the poll worker has completed over the table t. *)
HistPassDone(hs, t) ==
    LET seen == Tracked \in hs.observed
        live == Tracked \in DOMAIN t /\ t[Tracked]._withdrawn = None
        sd1 == IF ~ FollowsSuddenDeath THEN "idle"
               ELSE IF seen THEN (IF live THEN "seen" ELSE "idle")
               ELSE IF hs.sd = "seen" THEN "missed" ELSE hs.sd
        steady == hs.steady /\ seen
    IN  [hs EXCEPT !.pollActed = TRUE,
                   !.steady = IF CountsUpdates THEN steady ELSE @,
                   !.updates = IF ~ CountsUpdates \/ ~ steady THEN 0 ELSE @,
                   !.sd = sd1,
                   !.wds = IF sd1 \in {"missed", "due"} /\ hs.sd # "seen"
                           THEN @ ELSE 0,
                   !.armed = IF sd1 = "missed" /\ hs.sd = "missed"
                             THEN @ ELSE FALSE,
                   !.again = seen /\ Tracked \in DOMAIN t
                                  /\ t[Tracked]._withdrawn # None,
                   !.observed = {},
                   !.sent = {}]

(* The run is over after its last attempt has failed. *)
HistRunFailed(hs) == [hs EXCEPT !.sent = {}]

(* A pass of the poll worker has failed: a snapshot of which the pass has *)
(* observed a part was not read successfully, and is not one over which   *)
(* the indicator is steady.                                                *)
HistPassFailed(hs, t) ==
    LET steady == hs.steady /\ hs.observed = {}
    IN  [hs EXCEPT !.sd = IF @ = "seen" THEN "idle" ELSE @,
                   !.steady = IF CountsUpdates THEN steady ELSE @,
                   !.updates = IF ~ CountsUpdates \/ ~ steady THEN 0 ELSE @,
                   !.again = Tracked \in hs.observed /\ Tracked \in DOMAIN t
                                  /\ t[Tracked]._withdrawn # None,
                   !.observed = {}]

(* The age-out worker has emitted withdraw for indicator i. *)
HistWithdraw(hs, i) ==
    [hs EXCEPT !.wds = IF i = Tracked /\ hs.sd \in {"missed", "due"}
                       THEN Sat(@) ELSE @,
               !.last = IF @ # "off" /\ i = Tracked THEN "withdraw" ELSE @]

(* A pass of the age-out worker begins, and ends. *)
HistAgeOutBegin(hs) == [hs EXCEPT !.armed = (hs.sd = "missed")]

HistAgeOutEnd(hs) ==
    [hs EXCEPT !.sd = IF hs.armed /\ @ = "missed" THEN "due" ELSE @,
               !.armed = FALSE]

(***************************************************************************)
(*                        THE ACTIONS OF THE MINER                         *)
(***************************************************************************)
Configs ==
    {[sudden_death |-> sdth, default |-> sel] :
        sdth \in BOOLEAN,
        sel \in {[base |-> "none", offset |-> 0],
                 [base |-> "first_seen", offset |-> AgeOffset],
                 [base |-> "last_seen", offset |-> AgeOffset]}}

(* The table on disk: empty, or what the life of the miner before a      *)
(* rebuild has left, a live record or one aged out and withdrawn.          *)
PersistedTables(cfg, rebuild) ==
    LET v0 == Record(0, 0, 0, None, None, SteadyConf)
        v == [v0 EXCEPT !._age_out = _calc_age_out(cfg.default, v0)]
    IN  IF ~ rebuild THEN {<<>>}
        ELSE {[i \in {Tracked} |-> v],
              [i \in {Tracked} |-> [v EXCEPT !._age_out = 0,
                                             !._withdrawn = 0]]}

(* configure, and initialize or rebuild: basepoller.py:188-223. *)
InitMiner ==
    /\ taxii = TaxiiConstructed
    /\ atable = <<>>
    /\ st = {}
    /\ view = {}
    /\ clock = 1
    /\ state = "READY"
    /\ age_out \in Configs
    /\ rebuild_flag \in BOOLEAN
    /\ mtable \in PersistedTables(age_out, rebuild_flag)
    /\ last_run = None
    /\ last_ageout_run = None
    /\ poll_event = FALSE
    /\ lock = RWLock
    /\ glet = [pc |-> "none", lastrun |-> None, now |-> None, tryn |-> 0,
               n |-> 0, wake |-> 0]
    /\ ageout_glet = [pc |-> "none", now |-> None, todo |-> <<>>,
                      cur |-> "", wake |-> 0]
    /\ statistics = [error_polling |-> 0]
    /\ active_requests = {}
    /\ stop_pc = "idle"
    /\ hist = [pollActed |-> FALSE, updates |-> 0, steady |-> TRUE,
               observed |-> {}, sd |-> "idle", armed |-> FALSE, wds |-> 0,
               again |-> FALSE, last |-> "off",
               sent |-> {}, hups |-> None, busy |-> 0, served |-> 0]

(* The clock advances by d; g.wake is the time a sleeping worker has left *)
(* to sleep.                                                               *)
Later(g, d) == [g EXCEPT !.wake = IF @ > d THEN @ - d ELSE 0]

Tick ==
    /\ clock < MaxTime
    /\ clock' = clock + 1
    /\ glet' = Later(glet, 1)
    /\ ageout_glet' = Later(ageout_glet, 1)
    /\ UNCHANGED <<state, mtable, last_run, last_ageout_run, rebuild_flag,
                   poll_event, lock, age_out, hist>>
    /\ UNCHANGED <<statistics, active_requests, stop_pc>>
    /\ UNCHANGED <<aggVars, taxii>>

(* start, basepoller.py:493-500. *)
Start ==
    /\ state = "READY"
    /\ glet.pc = "none"
    /\ state' = "STARTED"
    /\ glet' = [glet EXCEPT !.pc = "wait_ageout"]
    /\ ageout_glet' = [ageout_glet EXCEPT !.pc = "sleep", !.wake = 0]
    /\ UNCHANGED <<clock, mtable, last_run, last_ageout_run, rebuild_flag,
                   poll_event, lock, age_out, hist>>
    /\ UNCHANGED <<statistics, active_requests, stop_pc>>
    /\ UNCHANGED <<aggVars, taxii>>

(* The calls of hup since poll_event was last cleared, and those of them  *)
(* that came while a pass was in progress or backing off.                  *)
HistHup(hs, pc) ==
    IF hs.hups = None THEN hs
    ELSE [hs EXCEPT !.hups = @ + 1,
                    !.busy = IF pc \in {"items", "backoff"} THEN @ + 1
                             ELSE @]

(* hup, basepoller.py:486-488: setting an event that is set changes       *)
(* nothing.                                                                *)
Hup ==
    /\ ~ poll_event \/ (hist.hups # None /\ hist.hups < MaxHups)
    /\ poll_event' = TRUE
    /\ hist' = HistHup(hist, glet.pc)
    /\ UNCHANGED <<clock, state, mtable, last_run, last_ageout_run,
                   rebuild_flag, lock, age_out, glet, ageout_glet>>
    /\ UNCHANGED <<statistics, active_requests, stop_pc>>
    /\ UNCHANGED <<aggVars, taxii>>

(***************************************************************************)
(* _age_out_run, basepoller.py:237-277.                                    *)
(***************************************************************************)
(* The worker goes on with the records of the query that are left: it     *)
(* skips the withdrawn ones and is suspended in the emit of the first     *)
(* other one, or comes to the end of the pass and sleeps.                 *)
AgeOutContinue(t, g, todo, hs, lk) ==
    LET live == {i \in DOMAIN todo : todo[i]._withdrawn = None}
    IN  /\ mtable' = t
        /\ IF live = {}
           THEN /\ last_ageout_run' = g.now
                /\ lock' = RUnlock(lk)
                /\ ageout_glet' = [g EXCEPT !.pc = "sleep", !.todo = <<>>,
                                            !.cur = "", !.now = None,
                                            !.wake = AgeOutInterval]
                /\ hist' = HistAgeOutEnd(hs)
           ELSE \E i \in live :
                   /\ ageout_glet' = [g EXCEPT !.pc = "emit", !.cur = i,
                                       !.todo = [x \in live |-> todo[x]]]
                   /\ hist' = HistWithdraw(hs, i)
                   /\ lock' = lk
                   /\ UNCHANGED last_ageout_run

(* The to_key of the query of a pass at time now: basepoller.py:249-251. *)
AgeOutToKey_Now(now) == now

AgeOutToKey(now) == now - 1

(* The pass begins: basepoller.py:239-257. *)
AgeOutBegin ==
    /\ ageout_glet.pc = "sleep"
    /\ ageout_glet.wake = 0
    /\ CanRLock(lock)
    /\ IF state # "STARTED"
       THEN /\ ageout_glet' = [ageout_glet EXCEPT !.pc = "done"]
            /\ UNCHANGED <<mtable, last_ageout_run, lock, hist>>
       ELSE LET q == QueryAgeOut(mtable, AgeOutToKey(clock))
            IN  AgeOutContinue(mtable, [ageout_glet EXCEPT !.now = clock],
                               [i \in q |-> mtable[i]],
                               HistAgeOutBegin(hist), RLock(lock))
    /\ UNCHANGED <<clock, state, last_run, rebuild_flag, poll_event, age_out,
                   glet>>
    /\ UNCHANGED <<statistics, active_requests, stop_pc>>
    /\ UNCHANGED <<aggVars, taxii>>

(* The emit returns: basepoller.py:258-263. *)
AgeOutResume ==
    /\ ageout_glet.pc = "emit"
    /\ LET i == ageout_glet.cur
           v == [ageout_glet.todo[i] EXCEPT !._withdrawn = ageout_glet.now]
       IN  AgeOutContinue(TablePut(mtable, i, v), ageout_glet,
                          [x \in DOMAIN ageout_glet.todo \ {i} |->
                              ageout_glet.todo[x]],
                          hist, lock)
    /\ UNCHANGED <<clock, state, last_run, rebuild_flag, poll_event, age_out,
                   glet>>
    /\ UNCHANGED <<statistics, active_requests, stop_pc>>
    /\ UNCHANGED <<aggVars, taxii>>

(***************************************************************************)
(* _run, basepoller.py:404-478.                                            *)
(***************************************************************************)
(* basepoller.py:405, the condition that ends the wait of the poll worker. *)
AgeOutPassCompleted_Always(lar) == TRUE

AgeOutPassCompleted(lar) == lar # None

(* The indicators for which the stage before the first pass emits update *)
(* over the table t: basepoller.py:414-418.                                *)
RebuildEmits(t, flag) == IF flag THEN DOMAIN t ELSE {}

(* The wait is over; the indicators of a rebuilt table are sent again:    *)
(* basepoller.py:405-422.                                                  *)
RunRebuild ==
    /\ glet.pc = "wait_ageout"
    /\ AgeOutPassCompleted(last_ageout_run)
    /\ CanRLock(lock)
    /\ IF state # "STARTED"
       THEN /\ glet' = [glet EXCEPT !.pc = "done"]
            /\ UNCHANGED <<lock, hist>>
       ELSE /\ lock' = Unlock(RLock(lock))
            /\ glet' = [glet EXCEPT !.pc = "run", !.tryn = 0]
            /\ hist' = IF RebuildEmits(mtable, rebuild_flag) # {}
                       THEN [hist EXCEPT !.pollActed = TRUE]
                       ELSE hist
    /\ UNCHANGED <<clock, state, mtable, last_run, last_ageout_run,
                   rebuild_flag, poll_event, age_out, ageout_glet>>
    /\ UNCHANGED <<statistics, active_requests, stop_pc>>
    /\ UNCHANGED <<aggVars, taxii>>

(* The time to wait for the next run: basepoller.py:463-469. *)
Deltat_NoLoop(d) == d

Deltat_Zero(d) == IF d < 0 THEN 0 ELSE d

RECURSIVE Deltat(_)
Deltat(d) == IF d < 0 THEN Deltat(d + Interval) ELSE d

(* The warnings of the loop of basepoller.py:466-469, one for each time   *)
(* the interval is added.                                                  *)
RECURSIVE DeltatWarnings(_)
DeltatWarnings(d) == IF d < 0 THEN 1 + DeltatWarnings(d + Interval) ELSE 0

(* The end of the wait on poll_event, basepoller.py:471-475: the event is *)
(* cleared when the wait returns because it is set.                        *)
ClearPollEvent_Never(hup_called, ev) == ev
ClearPollEvent(hup_called, ev) == IF hup_called THEN FALSE ELSE ev

(* poll_event when an attempt begins: only the wait between two runs looks *)
(* at the event, basepoller.py:471-475; the sleep of the back-off,         *)
(* basepoller.py:449-451, and the first run do not.                        *)
PollEventAtStart_Always(pc, ev) == ClearPollEvent(ev, ev)
PollEventAtStart(pc, ev) ==
    IF pc = "wait" THEN ClearPollEvent(ev, ev) ELSE ev

(* The calls of hup that the start of an attempt has used up: those the   *)
(* wait has cleared the event of.                                          *)
HistRunStart(hs, ev, ev2) ==
    [hs EXCEPT !.observed = {},
               !.hups = IF @ # None /\ ev /\ ~ ev2 THEN 0 ELSE @,
               !.busy = IF ev /\ ~ ev2 THEN 0 ELSE @,
               !.served = IF hs.hups = None THEN @
                          ELSE IF ev /\ ~ ev2 THEN hs.busy ELSE 0]

(* A run begins, the first one or after the wait or the back-off of the   *)
(* one before: basepoller.py:425-433 and 324.  The clock is read twice,   *)
(* for lastrun and for now, and may advance in between.                    *)
RunStart(d) ==
    /\ \/ glet.pc = "run"
       \/ glet.pc = "wait" /\ (poll_event \/ glet.wake = 0)
       \/ glet.pc = "backoff" /\ glet.wake = 0
    /\ clock + d <= MaxTime
    /\ LET lk == IF glet.pc = "backoff" THEN RUnlock(lock) ELSE lock
       IN  /\ CanRLock(lk)
           /\ IF state # "STARTED"
              THEN /\ glet' = [glet EXCEPT !.pc = "done", !.wake = 0]
                   /\ lock' = lk
                   /\ UNCHANGED clock
              ELSE /\ glet' = [glet EXCEPT !.pc = "items", !.lastrun = clock,
                                           !.now = clock + d, !.n = 0,
                                           !.wake = 0]
                   /\ lock' = RLock(lk)
                   /\ clock' = clock + d
    /\ ageout_glet' = IF state = "STARTED" THEN Later(ageout_glet, d)
                      ELSE ageout_glet
    /\ poll_event' = PollEventAtStart(glet.pc, poll_event)
    /\ hist' = HistRunStart(hist, poll_event,
                            PollEventAtStart(glet.pc, poll_event))
    /\ UNCHANGED <<state, mtable, last_run, last_ageout_run, rebuild_flag,
                   age_out>>
    /\ UNCHANGED <<statistics, active_requests, stop_pc>>
    /\ UNCHANGED <<aggVars, taxii>>

(* The iterator of _build_iterator yields one more item of the feed, the  *)
(* n+1-th: basepoller.py:326-402.                                          *)
PollItem(item) ==
    /\ glet.pc = "items"
    /\ glet.n < MaxFeedLen
    /\ LET r == ProcessItem(mtable, age_out.default, item, glet.now,
                            InFeedThreshold(last_run, glet.now))
       IN  /\ mtable' = r.table
           /\ hist' = HistItem(hist, item, r.update)
    /\ glet' = [glet EXCEPT !.n = @ + 1]
    /\ UNCHANGED <<clock, state, last_run, last_ageout_run, rebuild_flag,
                   poll_event, lock, age_out, ageout_glet>>
    /\ UNCHANGED <<statistics, active_requests, stop_pc>>
    /\ UNCHANGED <<aggVars, taxii>>

(* The iterator yields an item on which _process_item raises: the loop    *)
(* logs the exception and goes on with the next item, basepoller.py:328-   *)
(* 334.                                                                    *)
PollItemRaises ==
    /\ glet.pc = "items"
    /\ glet.n < MaxFeedLen
    /\ glet' = [glet EXCEPT !.n = @ + 1]
    /\ UNCHANGED <<clock, state, mtable, last_run, last_ageout_run,
                   rebuild_flag, poll_event, lock, age_out, ageout_glet,
                   hist>>
    /\ UNCHANGED <<statistics, active_requests, stop_pc>>
    /\ UNCHANGED <<aggVars, taxii>>

(* The end of a run: basepoller.py:456-472. *)
EndOfRun(g) ==
    [g EXCEPT !.pc = "wait", !.tryn = 0, !.n = 0, !.now = None,
              !.lastrun = None,
              !.wake = Deltat((g.lastrun + Interval) - clock)]

(* The feed is exhausted: basepoller.py:435-438 and 453-472. *)
PassDone ==
    /\ glet.pc = "items"
    /\ LET t1 == IF age_out.sudden_death
                 THEN _sudden_death(mtable, last_run) ELSE mtable
           t2 == _collect_garbage(t1, glet.lastrun)
       IN  /\ mtable' = t2
           /\ hist' = HistPassDone(hist, t2)
    /\ lock' = RUnlock(lock)
    /\ last_run' = glet.lastrun
    /\ glet' = EndOfRun(glet)
    /\ UNCHANGED <<clock, state, last_ageout_run, rebuild_flag, poll_event,
                   age_out, ageout_glet>>
    /\ UNCHANGED <<statistics, active_requests, stop_pc>>
    /\ UNCHANGED <<aggVars, taxii>>

(* The test of basepoller.py:449 on the attempts made, tryn, for the run. *)
RetryAgain_Inclusive(tryn) == tryn <= num_retries
RetryAgain(tryn) == tryn < num_retries

(* _build_iterator or the iterator raises: basepoller.py:443-472. *)
PollFail ==
    /\ glet.pc = "items"
    /\ statistics.error_polling < MaxErrors
    /\ statistics' = [statistics EXCEPT !.error_polling = @ + 1]
    /\ IF RetryAgain(glet.tryn + 1)
       THEN /\ glet' = [glet EXCEPT !.pc = "backoff", !.tryn = @ + 1,
                                    !.n = 0, !.now = None,
                                    !.lastrun = None, !.wake = 1]
            /\ hist' = HistPassFailed(hist, mtable)
            /\ UNCHANGED <<lock, last_run>>
       ELSE /\ lock' = RUnlock(lock)
            /\ last_run' = glet.lastrun
            /\ glet' = EndOfRun(glet)
            /\ hist' = HistRunFailed(HistPassFailed(hist, mtable))
    /\ UNCHANGED <<clock, state, mtable, last_ageout_run, rebuild_flag,
                   poll_event, age_out, ageout_glet>>
    /\ UNCHANGED <<active_requests, stop_pc>>
    /\ UNCHANGED <<aggVars, taxii>>

(***************************************************************************)
(* stop, basepoller.py:502-514.                                            *)
(***************************************************************************)
(* The request tasks that a miner tracks in active_requests. *)
Requests == {"request"}

(* A request task is spawned and tracked while the miner runs. *)
TrackRequest ==
    /\ state = "STARTED"
    /\ \E r \in Requests \ active_requests :
          active_requests' = active_requests \cup {r}
    /\ UNCHANGED <<clock, state, mtable, last_run, last_ageout_run,
                   rebuild_flag, poll_event, lock, age_out, glet,
                   ageout_glet, statistics, stop_pc, hist>>
    /\ UNCHANGED <<aggVars, taxii>>

(* BaseFT.stop sets the state, through the setter of basepoller.py:228;   *)
(* the workers exist, basepoller.py:505.                                   *)
StopState ==
    /\ state = "STARTED"
    /\ stop_pc = "idle"
    /\ CanLock(lock)
    /\ state' = "STOPPED"
    /\ lock' = Unlock(Lock(lock))
    /\ stop_pc' = "active_requests"
    /\ UNCHANGED <<clock, mtable, last_run, last_ageout_run, rebuild_flag,
                   poll_event, age_out, glet, ageout_glet, statistics,
                   active_requests, hist>>
    /\ UNCHANGED <<aggVars, taxii>>

(* The tracked request tasks are killed: basepoller.py:508-509. *)
StopKillRequests ==
    /\ stop_pc = "active_requests"
    /\ active_requests' = {}
    /\ stop_pc' = "glet"
    /\ UNCHANGED <<clock, state, mtable, last_run, last_ageout_run,
                   rebuild_flag, poll_event, lock, age_out, glet,
                   ageout_glet, statistics, hist>>
    /\ UNCHANGED <<aggVars, taxii>>

(* The poll worker is killed where it is suspended: basepoller.py:511,    *)
(* with the handlers of 440, 453 and 477.                                  *)
StopKillPoll ==
    /\ stop_pc = "glet"
    /\ lock' = IF glet.pc \in {"items", "backoff"} THEN RUnlock(lock)
               ELSE lock
    /\ glet' = [glet EXCEPT !.pc = "done", !.n = 0, !.now = None,
                            !.lastrun = None, !.wake = 0, !.tryn = 0]
    /\ stop_pc' = "ageout_glet"
    /\ UNCHANGED <<clock, state, mtable, last_run, last_ageout_run,
                   rebuild_flag, poll_event, age_out, ageout_glet,
                   statistics, active_requests, hist>>
    /\ UNCHANGED <<aggVars, taxii>>

(* The age-out worker is killed: basepoller.py:512, with the handlers of  *)
(* 265 and 276; stop returns.                                              *)
StopKillAgeOut ==
    /\ stop_pc = "ageout_glet"
    /\ lock' = IF ageout_glet.pc = "emit" THEN RUnlock(lock) ELSE lock
    /\ ageout_glet' = [ageout_glet EXCEPT !.pc = "done", !.todo = <<>>,
                                          !.cur = "", !.now = None,
                                          !.wake = 0]
    /\ stop_pc' = "returned"
    /\ UNCHANGED <<clock, state, mtable, last_run, last_ageout_run,
                   rebuild_flag, poll_event, age_out, glet, statistics,
                   active_requests, hist>>
    /\ UNCHANGED <<aggVars, taxii>>

NextMiner ==
    \/ Tick
    \/ Start
    \/ Hup
    \/ AgeOutBegin
    \/ AgeOutResume
    \/ RunRebuild
    \/ \E d \in {0, 1} : RunStart(d)
    \/ \E item \in Items : PollItem(item)
    \/ PassDone
    \/ PollFail

(* The miner while it runs. *)
SpecMiner == InitMiner /\ [][NextMiner]_vars

NextLifecycle ==
    \/ NextMiner
    \/ TrackRequest
    \/ StopState
    \/ StopKillRequests
    \/ StopKillPoll
    \/ StopKillAgeOut

(* The miner from start to stop. *)
SpecLifecycle == InitMiner /\ [][NextLifecycle]_vars

(* The miner configured with the age-out policy cfg on an empty table,    *)
(* basepoller.py:188-223, at the instant t0 of the clock.                  *)
InitWith(t0, cfg, last, hups) ==
    /\ taxii = TaxiiConstructed
    /\ atable = <<>>
    /\ st = {}
    /\ view = {}
    /\ clock = t0
    /\ state = "READY"
    /\ age_out = cfg
    /\ rebuild_flag = FALSE
    /\ mtable = <<>>
    /\ last_run = None
    /\ last_ageout_run = None
    /\ poll_event = FALSE
    /\ lock = RWLock
    /\ glet = [pc |-> "none", lastrun |-> None, now |-> None, tryn |-> 0,
               n |-> 0, wake |-> 0]
    /\ ageout_glet = [pc |-> "none", now |-> None, todo |-> <<>>,
                      cur |-> "", wake |-> 0]
    /\ statistics = [error_polling |-> 0]
    /\ active_requests = {}
    /\ stop_pc = "idle"
    /\ hist = [pollActed |-> FALSE, updates |-> 0, steady |-> TRUE,
               observed |-> {}, sd |-> "idle", armed |-> FALSE, wds |-> 0,
               again |-> FALSE, last |-> last,
               sent |-> {}, hups |-> hups, busy |-> 0, served |-> 0]

(* The defaults of the age-out policy but no age-out interval; the clock  *)
(* at its origin, so that a pass may last longer than Interval before      *)
(* MaxTime.                                                                *)
InitSchedule ==
    InitWith(0, [sudden_death |-> TRUE,
                 default |-> [base |-> "none", offset |-> 0]], "off", None)

(* Sudden death and an age-out interval on first_seen; the model follows  *)
(* the last event emitted for the indicator.                               *)
InitInterleave ==
    InitWith(1, [sudden_death |-> TRUE,
                 default |-> [base |-> "first_seen", offset |-> AgeOffset]],
             "none", None)

(* The two workers of a miner that does not rebuild. *)
SpecInterleave == InitInterleave /\ [][NextMiner]_vars

(* No age-out of any kind: the age-out worker never emits; the clock at   *)
(* its origin, and the model follows the events emitted.                   *)
InitRetry ==
    InitWith(0, [sudden_death |-> FALSE,
                 default |-> [base |-> "none", offset |-> 0]], "none", None)

(* The steps of a miner that nothing ages out: its age-out worker finds   *)
(* no record to withdraw and is never suspended in an emit.                *)
NextRetry ==
    \/ Tick
    \/ Start
    \/ Hup
    \/ AgeOutBegin
    \/ RunRebuild
    \/ \E d \in {0, 1} : RunStart(d)
    \/ \E item \in Items : PollItem(item)
    \/ PassDone
    \/ PollFail

(* The retries of a miner that nothing ages out. *)
SpecRetry == InitRetry /\ [][NextRetry]_vars

(* No age-out; the model counts the calls of hup. *)
InitHup ==
    InitWith(0, [sudden_death |-> FALSE,
                 default |-> [base |-> "none", offset |-> 0]], "off", 0)

(* The miner and the calls of hup it gets. *)
SpecHup == InitHup /\ [][NextRetry]_vars

(* The miner from the origin of the clock. *)
SpecSchedule == InitSchedule /\ [][NextMiner]_vars

NextParse ==
    \/ NextMiner
    \/ PollItemRaises

(* An age-out interval on first_seen and no sudden death. *)
InitParse ==
    InitWith(1, [sudden_death |-> FALSE,
                 default |-> [base |-> "first_seen", offset |-> AgeOffset]],
             "off", None)

(* The miner over a feed that has items which do not parse. *)
SpecParse == InitParse /\ [][NextParse]_vars

(***************************************************************************)
(*                     THE TAXII CLIENT (taxii.py)                         *)
(***************************************************************************)
(* The pass of a TaxiiClient miner as far as _build_iterator goes: every  *)
(* call of the TAXII service suspends the poll worker, taxii.pc names the  *)
(* request it waits the response of.                                       *)
MaxParts == 2
MaxBlockLen == 1
MaxSeconds == 2
initial_interval == 1

(* Milliseconds in a second: taxii.py:562-567. *)
MsPerSec == 1000

(* The first instant of the model and the steps of its clock. *)
TaxiiEpoch == initial_interval * MsPerSec + MsPerSec \div 2
TickSteps == {MsPerSec \div 2 + 100, MsPerSec}

(* The services of a discovery response, the collection the client asks   *)
(* for in a collection information response (its polling service          *)
(* instances: None, or how many), and the indicators of a content block.  *)
ServiceTypes == {"COLLECTION_MANAGEMENT", "POLL"}
ServiceAddress == 1
SVC_COLLECTION_MANAGEMENT == "COLLECTION_MANAGEMENT"
CT_DATA_FEED == "DATA_FEED"
CollectionInformations ==
    [found : BOOLEAN, polling_service_instances : {None, 0, 1},
     collection_type : {CT_DATA_FEED, "DATA_SET"}]
ResultIds == {"r1", "r2"}
StixIds == {"a", "b"}
AddressCategories == {"ipv4-addr", "ipv6-addr"}
StixIndicators == [id : StixIds, category : AddressCategories]
ContentBlocks ==
    UNION {[1..n -> StixIndicators] : n \in 0..MaxBlockLen}

(* _discover_services, taxii.py:195-205: the address of the collection    *)
(* management service of the response, None without one.                   *)
_discover_services(service_instances) ==
    IF SVC_COLLECTION_MANAGEMENT \in service_instances
    THEN ServiceAddress ELSE None

(* _check_collections, taxii.py:228-249: what it raises, "ok" if nothing. *)
_check_collections_AnyType(tci) ==
    IF ~ tci.found THEN "not found"
    ELSE IF tci.polling_service_instances = None
            \/ tci.polling_service_instances = 0
         THEN "doesn't support polling"
    ELSE "ok"

_check_collections(tci) ==
    IF ~ tci.found THEN "not found"
    ELSE IF tci.polling_service_instances = None
            \/ tci.polling_service_instances = 0
         THEN "doesn't support polling"
    ELSE IF tci.collection_type # CT_DATA_FEED THEN "is not a data feed"
    ELSE "ok"

(* _decode_observable for an AddressObjectType, taxii.py:453-457: the     *)
(* type of the result after the two assignments.                           *)
_decode_observable(addrcat) ==
    LET result1 == IF addrcat = "ipv6-addr"
                   THEN [type |-> "IPv6"] ELSE [type |-> None]
        result2 == [result1 EXCEPT !.type = "IPv4"]
    IN  result2.type

(* _handle_content_blocks, taxii.py:345-401: objects['indicators'] after  *)
(* the indicators of the blocks, each under its id.                        *)
RECURSIVE _handle_content_blocks(_, _)
_handle_content_blocks(content_blocks, indicators) ==
    IF content_blocks = <<>> THEN indicators
    ELSE LET i == Head(content_blocks)
             ci == [category |-> i.category,
                    type |-> _decode_observable(i.category)]
         IN  _handle_content_blocks(
                 Tail(content_blocks),
                 [x \in DOMAIN indicators \cup {i.id} |->
                     IF x = i.id THEN ci ELSE indicators[x]])

(* The ids of the blocks, in the order of the blocks. *)
RECURSIVE BlockIds(_)
BlockIds(content_blocks) ==
    IF content_blocks = <<>> THEN <<>>
    ELSE <<Head(content_blocks).id>> \o BlockIds(Tail(content_blocks))

(* The ids received so far in the order in which each was received first, *)
(* after the ids of one more sequence of blocks.                           *)
RECURSIVE FirstReceived(_, _)
FirstReceived(received, ids) ==
    IF ids = <<>> THEN received
    ELSE FirstReceived(
             IF \E k \in DOMAIN received : received[k] = Head(ids)
             THEN received ELSE Append(received, Head(ids)),
             Tail(ids))

(* dict.iteritems, taxii.py:342-343: the keys of a dict come in an order  *)
(* that the hashes of the keys decide, any order.                          *)
iteritems(d) ==
    {s \in [1..Cardinality(DOMAIN d) -> DOMAIN d] :
        \A i, j \in DOMAIN s : i < j => s[i] # s[j]}

(* taxii.py:560-562: the instant the window of the poll begins at. *)
TaxiiLastRun_Initial(last_taxii_run, now) ==
    now - initial_interval * MsPerSec

TaxiiLastRun(last_taxii_run, now) ==
    IF last_taxii_run = None THEN now - initial_interval * MsPerSec
    ELSE last_taxii_run

(* datetime.fromtimestamp(t/1000), taxii.py:564-567: whole seconds. *)
FromTimestamp(t) == t \div MsPerSec

(* The exception handler of _run for a pass that raises:                  *)
(* basepoller.py:443-472.                                                  *)
TaxiiRaised(tx) ==
    IF RetryAgain(tx.tryn + 1)
    THEN [tx EXCEPT !.pc = "backoff", !.tryn = @ + 1, !.now = None]
    ELSE [tx EXCEPT !.pc = "wait", !.tryn = 0, !.now = None]

TaxiiRaise(tx) ==
    /\ statistics.error_polling < MaxErrors
    /\ statistics' = [statistics EXCEPT !.error_polling = @ + 1]
    /\ taxii' = TaxiiRaised(tx)

TaxiiRest ==
    <<state, mtable, last_run, last_ageout_run, rebuild_flag, poll_event,
      lock, age_out, glet, ageout_glet, active_requests, stop_pc, hist>>

(* A miner that is configured and started: taxii.py:51-56, 58-103. *)
InitTaxii ==
    /\ atable = <<>>
    /\ st = {}
    /\ view = {}
    /\ taxii = TaxiiConstructed
    /\ clock = TaxiiEpoch
    /\ state = "STARTED"
    /\ mtable = <<>>
    /\ last_run = None
    /\ last_ageout_run = None
    /\ rebuild_flag = FALSE
    /\ poll_event = FALSE
    /\ lock = RWLock
    /\ age_out = [sudden_death |-> TRUE,
                  default |-> [base |-> "none", offset |-> 0]]
    /\ glet = [pc |-> "none", lastrun |-> None, now |-> None, tryn |-> 0,
               n |-> 0, wake |-> 0]
    /\ ageout_glet = [pc |-> "none", now |-> None, todo |-> <<>>,
                      cur |-> "", wake |-> 0]
    /\ statistics = [error_polling |-> 0]
    /\ active_requests = {}
    /\ stop_pc = "idle"
    /\ hist = [pollActed |-> FALSE, updates |-> 0, steady |-> TRUE,
               observed |-> {}, sd |-> "idle", armed |-> FALSE, wds |-> 0,
               again |-> FALSE, last |-> "off",
               sent |-> {}, hups |-> None, busy |-> 0, served |-> 0]

(* The fields of the client once the pass is over with the list that      *)
(* _build_iterator has returned: the messages, the dicts and the list of   *)
(* the pass are no more.                                                   *)
TaxiiReturned(tx) ==
    [tx EXCEPT !.begin = None, !.end = None, !.request = NoRequest,
               !.service_instances = {}, !.tci = NoCollection,
               !.tm = NoMessage, !.indicators = <<>>, !.received = <<>>,
               !.result = <<>>]

(* Time passes. *)
TaxiiTick(d) ==
    /\ clock + d <= TaxiiEpoch + MaxSeconds * MsPerSec
    /\ clock' = clock + d
    /\ UNCHANGED <<taxii, statistics>>
    /\ UNCHANGED TaxiiRest
    /\ UNCHANGED aggVars

(* An attempt of a pass begins, the first of a run or one after the       *)
(* back-off: basepoller.py:322-324, and taxii.py:555-557 and 174-188 up to *)
(* the discovery request.                                                  *)
TaxiiRun ==
    /\ taxii.pc \in {"wait", "backoff"}
    /\ taxii' = [taxii EXCEPT
                    !.pc = "discovery", !.now = clock,
                    !.collection_mgmt_service = None,
                    !.begin = None, !.end = None,
                    !.request = [NoRequest EXCEPT !.kind = "discovery"],
                    !.service_instances = {}, !.tci = NoCollection,
                    !.tm = NoMessage, !.indicators = <<>>,
                    !.received = <<>>, !.result = <<>>]
    /\ UNCHANGED <<clock, statistics>>
    /\ UNCHANGED TaxiiRest
    /\ UNCHANGED aggVars

(* The discovery response arrives, and the collection information request *)
(* leaves: taxii.py:190-223.                                               *)
TaxiiDiscovered(service_instances) ==
    /\ taxii.pc = "discovery"
    /\ LET cms == _discover_services(service_instances)
           tx == [taxii EXCEPT !.service_instances = service_instances,
                               !.collection_mgmt_service = cms]
       IN  IF cms = None
           THEN TaxiiRaise(tx)
           ELSE /\ taxii' = [tx EXCEPT
                       !.pc = "collection_information",
                       !.request.kind = "collection_information"]
                /\ UNCHANGED statistics
    /\ UNCHANGED clock
    /\ UNCHANGED TaxiiRest
    /\ UNCHANGED aggVars

(* The collection information response arrives, and the poll request      *)
(* leaves: taxii.py:225-254, 560-572 and 279-308.                          *)
TaxiiChecked(tci) ==
    /\ taxii.pc = "collection_information"
    /\ LET tx == [taxii EXCEPT !.tci = tci]
           since == TaxiiLastRun(taxii.last_taxii_run, taxii.now)
       IN  IF _check_collections(tci) # "ok"
           THEN TaxiiRaise(tx)
           ELSE /\ taxii' = [tx EXCEPT
                       !.pc = "poll",
                       !.poll_service = ServiceAddress,
                       !.begin = FromTimestamp(since),
                       !.end = FromTimestamp(taxii.now),
                       !.request.kind = "poll"]
                /\ UNCHANGED statistics
    /\ UNCHANGED clock
    /\ UNCHANGED TaxiiRest
    /\ UNCHANGED aggVars

(* A part of the poll result has arrived: taxii.py:310-343 and 576-578.   *)
(* With more parts the fulfillment request for the next one leaves, with   *)
(* none _poll_collection and _build_iterator return.                       *)
TaxiiPart(tx, tm, content_blocks) ==
    LET indicators == _handle_content_blocks(content_blocks, tx.indicators)
        tx1 == [tx EXCEPT !.tm = tm, !.indicators = indicators,
                          !.received =
                              FirstReceived(@, BlockIds(content_blocks))]
    IN  IF tm.more
        THEN taxii' = [tx1 EXCEPT
                 !.pc = "fulfillment",
                 !.request = [kind |-> "fulfillment",
                              result_id |-> tm.result_id,
                              result_part_number |->
                                  tm.result_part_number + 1]]
        ELSE \E result \in iteritems(indicators) :
                 taxii' = [tx1 EXCEPT !.pc = "loop", !.result = result,
                                      !.last_taxii_run = tx.now,
                                      !.last_end = tx.end]

(* The poll response arrives: taxii.py:299-323. *)
TaxiiPolled(result_id, more, content_blocks) ==
    /\ taxii.pc = "poll"
    /\ TaxiiPart(taxii, [more |-> more, result_id |-> result_id,
                         result_part_number |-> 1], content_blocks)
    /\ UNCHANGED <<clock, statistics>>
    /\ UNCHANGED TaxiiRest
    /\ UNCHANGED aggVars

(* The response of a fulfillment request arrives, the part that was asked *)
(* for; the last part the server has says no more: taxii.py:325-334.       *)
TaxiiFulfilled(more, content_blocks) ==
    /\ taxii.pc = "fulfillment"
    /\ more => taxii.request.result_part_number < MaxParts
    /\ TaxiiPart(taxii, [more |-> more,
                         result_id |-> taxii.request.result_id,
                         result_part_number |->
                             taxii.request.result_part_number],
                 content_blocks)
    /\ UNCHANGED <<clock, statistics>>
    /\ UNCHANGED TaxiiRest
    /\ UNCHANGED aggVars

(* The call of a service raises, for the network or for the message. *)
TaxiiCallRaises ==
    /\ taxii.pc \in {"discovery", "collection_information", "poll",
                     "fulfillment"}
    /\ TaxiiRaise(taxii)
    /\ UNCHANGED clock
    /\ UNCHANGED TaxiiRest
    /\ UNCHANGED aggVars

(* The loop over the items and the end of the pass: basepoller.py:326-402 *)
(* and 435-472, without exception and with one.                            *)
TaxiiLoopEnds ==
    /\ taxii.pc = "loop"
    /\ taxii' = [TaxiiReturned(taxii) EXCEPT !.pc = "wait", !.tryn = 0,
                                              !.now = None]
    /\ UNCHANGED <<clock, statistics>>
    /\ UNCHANGED TaxiiRest
    /\ UNCHANGED aggVars

TaxiiLoopRaises ==
    /\ taxii.pc = "loop"
    /\ TaxiiRaise(TaxiiReturned(taxii))
    /\ UNCHANGED clock
    /\ UNCHANGED TaxiiRest
    /\ UNCHANGED aggVars

NextTaxii ==
    \/ \E d \in TickSteps : TaxiiTick(d)
    \/ TaxiiRun
    \/ \E service_instances \in SUBSET ServiceTypes :
          TaxiiDiscovered(service_instances)
    \/ \E tci \in CollectionInformations : TaxiiChecked(tci)
    \/ \E result_id \in ResultIds, more \in BOOLEAN,
          content_blocks \in ContentBlocks :
          TaxiiPolled(result_id, more, content_blocks)
    \/ \E more \in BOOLEAN, content_blocks \in ContentBlocks :
          TaxiiFulfilled(more, content_blocks)
    \/ TaxiiCallRaises
    \/ TaxiiLoopEnds
    \/ TaxiiLoopRaises

SpecTaxii == InitTaxii /\ [][NextTaxii]_vars

(***************************************************************************)
(*                       PROPERTIES OF THE MINER                           *)
(***************************************************************************)

(* C1: the poll worker re-emits nothing on a rebuild, runs no polling     *)
(* pass, emits nothing and writes nothing to the table before the age-out *)
(* worker has completed a pass, that is before last_ageout_run is set.    *)
C1_PollAfterAgeOut ==
    (hist.pollActed \/ glet.pc \notin {"none", "wait_ageout"})
        => last_ageout_run # None

(* C1, witness: the poll worker has emitted or written, after a pass of   *)
(* the age-out worker.                                                     *)
C1_Witness == hist.pollActed /\ last_ageout_run # None

(* C2: with sudden death and no age-out interval, an indicator observed   *)
(* in a run and not observed in the next run has been withdrawn when the  *)
(* next pass of the age-out worker ends, and withdraw is emitted for it   *)
(* once and no more while it is not observed again.                        *)
C2_SuddenDeathWithdraw ==
    FollowsSuddenDeath
        => /\ hist.sd = "due" => hist.wds = 1
           /\ hist.sd \in {"missed", "due"} => hist.wds <= 1

(* C3: an indicator that every snapshot read so far lists with the same   *)
(* attributes, and that does not age out, gets one update and no more,    *)
(* also when a pass has failed with its retries exhausted.                 *)
C3_SteadyOneUpdate == (CountsUpdates /\ hist.steady) => hist.updates <= 1

(* A second pass over the feed, at the timestamp of the first, leaves the *)
(* table of the first and emits nothing; the second pass may belong to    *)
(* the same run or to the next one, which changes its in_feed_threshold.  *)
SecondPassIdle(feed) ==
    LET th1 == InFeedThreshold(last_run, glet.now)
        p1 == PollingLoop(mtable, age_out.default, feed, glet.now, th1, 0)
    IN  \A th2 \in {th1, glet.lastrun} :
           LET p2 == PollingLoop(p1.table, age_out.default, feed, glet.now,
                                 th2, 0)
           IN  p2.table = p1.table /\ p2.updates = 0

(* No indicator is listed twice in the feed with different attributes. *)
Unambiguous(feed) ==
    \A a, b \in DOMAIN feed :
        feed[a].indicator = feed[b].indicator => feed[a] = feed[b]

AtStartOfPass == glet.pc = "items" /\ glet.n = 0

PollWorkerIdle == glet.pc \in {"none", "wait_ageout", "wait", "backoff", "done"}
AgeOutWorkerIdle == ageout_glet.pc \in {"none", "sleep", "done"}

(* C11: a worker holds the read lock of the state only around one pass;   *)
(* whenever both workers sleep or have exited, no reader is left on the    *)
(* lock, so that a writer is never blocked by a sleeping worker.           *)
C11_LockOnlyAroundPass ==
    (PollWorkerIdle /\ AgeOutWorkerIdle) =>
        (lock.num_readers = 0 /\ CanLock(lock))

(* A step in which an attempt of the poll worker raises. *)
AttemptFails == statistics'.error_polling # statistics.error_polling

(* C12: a polling attempt that raises counts once in error.polling and is *)
(* tried again after a back-off; a scheduled run makes at most num_retries *)
(* attempts, and after the last one the worker goes to the wait between    *)
(* two runs with its attempt counter reset.                                *)
C12_Retries ==
    /\ [](glet.tryn < num_retries)
    /\ [](glet.pc = "wait" => glet.tryn = 0)
    /\ [][AttemptFails =>
            /\ glet.pc = "items"
            /\ statistics'.error_polling = statistics.error_polling + 1
            /\ IF glet.tryn + 1 < num_retries
               THEN glet'.pc = "backoff" /\ glet'.tryn = glet.tryn + 1
               ELSE glet'.pc = "wait" /\ glet'.tryn = 0]_vars
    /\ [][(glet.pc = "backoff" /\ glet'.pc # "backoff") =>
            (glet.wake = 0 /\ glet'.pc = "items" /\ glet'.tryn = glet.tryn)]_vars
    /\ [][(glet.pc = "items" /\ glet'.pc = "backoff") => AttemptFails]_vars

(* The first run has used up its attempts and the worker waits for the    *)
(* next one: nothing has been polled, no pass has completed.               *)
C12_Witness ==
    /\ glet.pc = "wait"
    /\ glet.tryn = 0
    /\ statistics.error_polling = num_retries
    /\ ~ hist.pollActed
    /\ ~ rebuild_flag

(* C13: a hup that arrives while the poll worker waits for its next run   *)
(* ends the wait whatever time of the interval is left: the worker can go  *)
(* on at once, and when it does it clears poll_event and starts a pass in  *)
(* the same step; a wait in which no hup arrives ends only when the time   *)
(* to the next run has elapsed.                                            *)
C13_HupEndsWait ==
    /\ []((glet.pc = "wait" /\ poll_event) => ENABLED RunStart(0))
    /\ [][(glet.pc = "wait" /\ poll_event /\ glet'.pc # "wait") =>
            (glet'.pc = "items" /\ glet'.n = 0 /\ ~ poll_event')]_vars
    /\ [][(glet.pc = "wait" /\ ~ poll_event /\ glet'.pc # "wait") =>
            glet.wake = 0]_vars

(* A pass that a hup has started before the interval since the run before *)
(* it had elapsed, the event cleared.                                      *)
C13_Witness ==
    /\ glet.pc = "items"
    /\ glet.n = 0
    /\ ~ poll_event
    /\ last_run # None
    /\ glet.lastrun < last_run + Interval

(* C14: stop terminates the two workers first and only then kills the     *)
(* tracked request tasks: in the step that kills the requests both workers *)
(* have exited already; and when stop has returned no worker and no        *)
(* tracked request is alive.                                               *)
C14_StopOrder ==
    /\ [][(active_requests # {} /\ active_requests' = {}) =>
            (glet.pc = "done" /\ ageout_glet.pc = "done")]_vars
    /\ [](stop_pc = "returned" =>
            (active_requests = {} /\ glet.pc = "done"
                                  /\ ageout_glet.pc = "done"))

(* C15: a worker that is killed exits where it is: it starts no pass and  *)
(* no retry afterwards, the kill counts no polling error, and once both    *)
(* workers have been killed no reader is left on the lock of the state.    *)
C15_CleanCancel ==
    /\ [][(glet.pc = "done" => glet'.pc = "done")
          /\ (ageout_glet.pc = "done" => ageout_glet'.pc = "done")]_vars
    /\ [][stop_pc # stop_pc' => statistics' = statistics]_vars
    /\ [](stop_pc = "returned" => lock.num_readers = 0)

C17_WithdrawnAfterAgeOut ==
    \A i \in DOMAIN mtable :
        /\ mtable[i].first_seen <= mtable[i].last_seen
        /\ mtable[i]._withdrawn # None =>
              \/ mtable[i]._withdrawn >= mtable[i]._age_out
              \/ age_out.sudden_death

(* A step in which a pass of the poll worker completes. *)
PassCompletes ==
    glet.pc = "items" /\ glet'.pc = "wait" /\ ~ AttemptFails

(* C18: the garbage collection at the end of a pass that started at       *)
(* lastrun deletes exactly the records with _withdrawn <= lastrun-1: a     *)
(* record leaves the table only at the end of a pass that started strictly *)
(* after its withdrawal, and every such record leaves it then; a record    *)
(* that is not withdrawn is never deleted.                                 *)
C18_GarbageCollection ==
    /\ [][\A i \in DOMAIN mtable \ DOMAIN mtable' :
            /\ PassCompletes
            /\ mtable[i]._withdrawn # None
            /\ mtable[i]._withdrawn < glet.lastrun]_vars
    /\ [][PassCompletes =>
            \A i \in DOMAIN mtable :
                (mtable[i]._withdrawn # None
                    /\ mtable[i]._withdrawn <= glet.lastrun - 1)
                => i \notin DOMAIN mtable']_vars

(* A pass has completed and left in the table a record withdrawn at the   *)
(* very instant the pass started.                                          *)
C18_Witness ==
    /\ glet.pc = "wait"
    /\ last_run # None
    /\ statistics.error_polling = 0
    /\ \E i \in DOMAIN mtable : mtable[i]._withdrawn = last_run

(* A step in which the polling pass reads one more item of the feed; the  *)
(* items of the model all carry the indicator Tracked.                     *)
PassObserves == glet.pc = "items" /\ glet'.pc = "items" /\ glet'.n = glet.n + 1

(* C19: with an age-out expression on last_seen, a pass that observes an  *)
(* indicator which is in the table, not withdrawn and not aged out, moves  *)
(* its _age_out to the time of the pass plus the offset.                   *)
C19_LastSeenMovesAgeOut ==
    [][(/\ age_out.default.base = "last_seen"
        /\ PassObserves
        /\ Tracked \in DOMAIN mtable
        /\ mtable[Tracked]._withdrawn = None
        /\ mtable[Tracked]._age_out >= glet.now)
       => (/\ Tracked \in DOMAIN mtable'
           /\ mtable'[Tracked]._age_out =
                  glet.now + age_out.default.offset)]_vars

(* C20: the re-emission of a rebuild, which runs after the first age-out  *)
(* pass, emits no update for an indicator whose record is marked           *)
(* withdrawn.                                                              *)
C20_RebuildSkipsWithdrawn ==
    [][(glet.pc = "wait_ageout" /\ glet'.pc = "run") =>
          \A i \in RebuildEmits(mtable, rebuild_flag) :
              mtable[i]._withdrawn = None]_vars

(* One turn of the loop in the pass that is under way: the state that the *)
(* pass gives to the indicator of an item, and what the turn does.         *)
InPass == glet.pc = "items"
Threshold == InFeedThreshold(last_run, glet.now)
StatusOf(i) == IndicatorStatus(mtable, i, glet.now, Threshold)
Status(item) == StatusOf(item.indicator)
ItemsOf(i) == {item \in ObservedItems : item.indicator = i}
Turn(item) ==
    ProcessItem(mtable, age_out.default, item, glet.now, Threshold)

(* The other records of the table are those of before the turn. *)
OthersKept(item) ==
    /\ DOMAIN Turn(item).table = DOMAIN mtable \cup {item.indicator}
    /\ \A i \in DOMAIN mtable \ {item.indicator} : Turn(item).table[i] = mtable[i]

(* C21: a pass at time now that observes an indicator which is not in the *)
(* table, or is in it but not in the feed, replaces the record by a fresh  *)
(* one (the configured attributes overlaid by the observed ones, the       *)
(* sources the name of the source, first_seen = last_seen = _last_run =    *)
(* now, _age_out from the policy, no _withdrawn) and emits one update that *)
(* carries it.                                                             *)
C21_FreshRecord ==
    [](InPass =>
      \A i \in Indicators :
        StatusOf(i) \in {NX, NFNANW, NFXANW, NFXAXW, NFNAXW} =>
         \A item \in ItemsOf(i) :
          LET r == Turn(item)
              v == r.table[item.indicator]
          IN  /\ v.sources = <<source_name>>
              /\ v.first_seen = glet.now
              /\ v.last_seen = glet.now
              /\ v._last_run = glet.now
              /\ v._age_out = IF age_out.default.base = "none"
                              THEN _MAX_AGE_OUT
                              ELSE glet.now + age_out.default.offset
              /\ v._withdrawn = None
              /\ v.confidence = IF item.confidence = None
                                THEN attributes.confidence
                                ELSE item.confidence
              /\ r.update
              /\ r.value = v
              /\ OthersKept(item))

(* A pass under way over a table that holds the indicator withdrawn and   *)
(* out of the feed.                                                        *)
C21_Witness ==
    /\ InPass
    /\ Tracked \in DOMAIN mtable
    /\ IndicatorStatus(mtable, Tracked, glet.now, Threshold)
           \in {NFXAXW, NFNAXW}

(* C27: for an indicator that is in the table, in the feed, not aged out  *)
(* and not withdrawn, the turn sets _last_run = now, overlays the observed *)
(* attributes on the stored record, recalculates _age_out and writes the   *)
(* record; it emits update exactly when an observed attribute differs from *)
(* the value stored before.                                                *)
C27_InFeedTurn ==
    [](InPass =>
      \A i \in Indicators :
        StatusOf(i) = XFNANW =>
         \A item \in ItemsOf(i) :
          LET r == Turn(item)
              cv == mtable[item.indicator]
              v == r.table[item.indicator]
              differs == item.confidence # None
                             /\ item.confidence # cv.confidence
          IN  /\ v._last_run = glet.now
              /\ v.confidence = IF item.confidence = None
                                THEN cv.confidence ELSE item.confidence
              /\ v._age_out =
                   IF age_out.default.base = "none" THEN _MAX_AGE_OUT
                   ELSE IF age_out.default.base = "first_seen"
                        THEN v.first_seen + age_out.default.offset
                        ELSE v.last_seen + age_out.default.offset
              /\ v.first_seen = cv.first_seen
              /\ v.last_seen = cv.last_seen
              /\ v.sources = cv.sources
              /\ v._withdrawn = None
              /\ r.update <=> differs
              /\ r.update => r.value = v
              /\ OthersKept(item))

(* A pass under way that has left the indicator in the feed, with a       *)
(* confidence other than the configured one.                               *)
C27_Witness ==
    /\ InPass
    /\ Tracked \in DOMAIN mtable
    /\ IndicatorStatus(mtable, Tracked, glet.now, Threshold) = XFNANW
    /\ mtable[Tracked].confidence # attributes.confidence
    /\ mtable[Tracked]._last_run < glet.now

(* C28: for an indicator that is in the table, in the feed, aged out and  *)
(* not withdrawn, the turn changes _last_run only, which it sets to now,   *)
(* whatever the observed attributes are, and emits nothing.                *)
C28_AgedOutTurn ==
    [](InPass =>
      \A i \in Indicators :
        StatusOf(i) = XFXANW =>
         \A item \in ItemsOf(i) :
          LET r == Turn(item)
          IN  /\ r.table[item.indicator] =
                     [mtable[item.indicator] EXCEPT !._last_run = glet.now]
              /\ ~ r.update
              /\ r.value = None
              /\ OthersKept(item))

(* A pass under way over a table that holds the indicator aged out, in    *)
(* the feed and not withdrawn, last observed by an earlier pass.           *)
C28_Witness ==
    /\ InPass
    /\ Tracked \in DOMAIN mtable
    /\ IndicatorStatus(mtable, Tracked, glet.now, Threshold) = XFXANW
    /\ mtable[Tracked]._last_run < glet.now

(* The record of the indicator is in the table and marked withdrawn. *)
IsWithdrawn(t, i) == i \in DOMAIN t /\ t[i]._withdrawn # None

(* For an indicator that is in the table, in the feed and withdrawn, aged *)
(* out or not, the turn sets _last_run and _withdrawn to now, changes      *)
(* nothing else and emits nothing.                                         *)
C29_WithdrawnTurn ==
    InPass =>
      \A i \in Indicators :
        StatusOf(i) \in {XFXAXW, XFNAXW} =>
         \A item \in ItemsOf(i) :
          LET r == Turn(item)
          IN  /\ r.table[item.indicator] =
                     [mtable[item.indicator] EXCEPT !._last_run = glet.now,
                                                    !._withdrawn = glet.now]
              /\ ~ r.update
              /\ r.value = None
              /\ OthersKept(item)

(* C29: in the states in feed and withdrawn a pass sets _last_run and     *)
(* _withdrawn to now, changes nothing else and emits nothing; so an        *)
(* indicator that the last pass observed and left withdrawn stays          *)
(* withdrawn, with no update, when a pass observes it again, and the end   *)
(* of a pass that has observed it leaves it in the table.                  *)
C29_StaysWithdrawn ==
    /\ []C29_WithdrawnTurn
    /\ [][(PassObserves /\ hist.again /\ IsWithdrawn(mtable, Tracked))
             => IsWithdrawn(mtable', Tracked)]_vars
    /\ [][(PassCompletes /\ Tracked \in hist.observed
                         /\ IsWithdrawn(mtable, Tracked))
             => IsWithdrawn(mtable', Tracked)]_vars

(* The records of table t that an age-out pass at time now has to         *)
(* withdraw.                                                               *)
DueAt(t, now) ==
    {i \in DOMAIN t : t[i]._age_out <= now - 1 /\ t[i]._withdrawn = None}

(* The steps of the age-out worker: a pass begins and is suspended in its *)
(* first emit, a pass begins and ends with nothing to emit, an emit        *)
(* returns.                                                                *)
AgeOutEmitsFirst == ageout_glet.pc = "sleep" /\ ageout_glet'.pc = "emit"
AgeOutEmitsNothing ==
    /\ ageout_glet.pc = "sleep" /\ ageout_glet'.pc = "sleep"
    /\ ageout_glet'.wake > ageout_glet.wake
AgeOutEmitReturns ==
    /\ ageout_glet.pc = "emit" /\ ageout_glet'.pc \in {"emit", "sleep"}
    /\ ageout_glet' # ageout_glet

(* C30: an age-out pass at time now emits withdraw for the records it     *)
(* reads with _age_out <= now-1 and no _withdrawn, sets their _withdrawn   *)
(* to now when the emit returns, and for no other record: the records      *)
(* already withdrawn and those with _age_out >= now are neither emitted    *)
(* nor written, so that a withdrawn record gets no second withdraw from a  *)
(* later pass.                                                             *)
C30_AgeOutPass ==
    /\ [][AgeOutEmitsFirst =>
            /\ ageout_glet'.now = clock
            /\ DOMAIN ageout_glet'.todo = DueAt(mtable, clock)
            /\ ageout_glet'.cur \in DueAt(mtable, clock)
            /\ mtable' = mtable]_vars
    /\ [][AgeOutEmitsNothing =>
            /\ DueAt(mtable, clock) = {}
            /\ last_ageout_run' = clock
            /\ mtable' = mtable]_vars
    /\ [][AgeOutEmitReturns =>
            LET i == ageout_glet.cur
                rest == DOMAIN ageout_glet.todo \ {i}
            IN  /\ mtable'[i]._withdrawn = ageout_glet.now
                /\ \A j \in DOMAIN mtable \ {i} : mtable'[j] = mtable[j]
                /\ DOMAIN mtable' = DOMAIN mtable \cup {i}
                /\ IF rest = {}
                   THEN /\ ageout_glet'.pc = "sleep"
                        /\ last_ageout_run' = ageout_glet.now
                   ELSE /\ ageout_glet'.pc = "emit"
                        /\ ageout_glet'.cur \in rest
                        /\ DOMAIN ageout_glet'.todo = rest]_vars

(* Two passes of the age-out worker have run before the first poll: the   *)
(* first has withdrawn the indicator, the later one has left it alone.     *)
C30_Witness ==
    /\ ~ hist.pollActed
    /\ ageout_glet.pc = "sleep"
    /\ IsWithdrawn(mtable, Tracked)
    /\ mtable[Tracked]._withdrawn >= 1
    /\ last_ageout_run > mtable[Tracked]._withdrawn

(* The records that the pass under way has observed and that its end      *)
(* leaves in the table.                                                    *)
ObservedKept == (hist.observed \cap DOMAIN mtable) \cap DOMAIN mtable'

(* The sudden-death scan does nothing at the end of the first pass, when  *)
(* last_run is not yet set.                                                *)
C31_FirstPassIdle ==
    [][(PassCompletes /\ last_run = None) =>
          \A i \in DOMAIN mtable \cap DOMAIN mtable' :
              mtable'[i] = mtable[i]]_vars

(* The scan leaves alone a record that still carries the timestamp of the *)
(* pass, when that timestamp is later than last_run.                       *)
C31_LaterStampKept ==
    [][(PassCompletes /\ last_run # None /\ glet.now > last_run) =>
          \A i \in ObservedKept :
              mtable[i]._last_run = glet.now =>
                  mtable'[i]._age_out = mtable[i]._age_out]_vars

(* C31: the sudden-death scan at the end of a pass changes the _age_out of *)
(* no record that the pass has observed, and at the end of the first pass, *)
(* last_run not yet set, it changes no record at all.                      *)
C31_SuddenDeathOnlyMissed ==
    /\ C31_FirstPassIdle
    /\ [][PassCompletes =>
            \A i \in ObservedKept :
                mtable'[i]._age_out = mtable[i]._age_out]_vars

(* The nine states of IndicatorStatus, basepoller.py:44-52. *)
NineStates ==
    {NX, NFNANW, XFNANW, NFXANW, XFXANW, NFNAXW, XFNAXW, NFXAXW, XFXAXW}

(* The branch of the polling loop that takes the state: basepoller.py:354, *)
(* 373, 387, 392 and 399.                                                  *)
Handler(istatus) ==
    IF istatus \in {NX, NFNANW, NFXANW, NFXAXW, NFNAXW} THEN "add"
    ELSE IF istatus = XFNANW THEN "in_feed"
    ELSE IF istatus = XFXANW THEN "aged_out"
    ELSE IF istatus \in {XFXAXW, XFNAXW} THEN "withdrawn"
    ELSE "unhandled"

(* The masks that are set in a state. *)
HasMask(istatus, mask) == (istatus \div mask) % 2 = 1

(* C32: the state of an indicator in a pass is one of the nine states, NX *)
(* or D with any of F, A and W, never F, A or W without D; one of the four *)
(* groups of the polling loop handles it, never the branch of the          *)
(* unhandled state.                                                        *)
C32_NineStates ==
    [](InPass =>
        \A i \in Indicators :
            /\ StatusOf(i) \in NineStates
            /\ StatusOf(i) \in 0 .. (D_MASK + F_MASK + A_MASK + W_MASK)
            /\ StatusOf(i) # NX => HasMask(StatusOf(i), D_MASK)
            /\ Handler(StatusOf(i)) # "unhandled")

(* A pass meets an indicator in feed, aged out and withdrawn: the state    *)
(* with the four masks.                                                    *)
C32_Witness == InPass /\ StatusOf(Tracked) = XFXAXW

(* A step in which a run ends and the poll worker goes to the wait for    *)
(* the next one, and the time at which the wait it computes is over.       *)
RunEnds == glet.pc = "items" /\ glet'.pc = "wait"

NextStart == clock' + glet'.wake

(* The multiples of the interval after lastrun that are not in the past   *)
(* when the run ends.                                                      *)
NotPast == {k \in 1 .. MaxTime + 1 : glet.lastrun + k * Interval >= clock'}

(* C33: the wait between two runs is lastrun + interval - now, the         *)
(* interval added until it is not negative: the wait used is at least 0    *)
(* and at most the interval, and the next pass is scheduled at lastrun +   *)
(* k * interval for the smallest k >= 1 for which this is not in the past. *)
C33_InterRunWait ==
    [][RunEnds =>
          /\ glet'.wake = Deltat((glet.lastrun + Interval) - clock')
          /\ 0 <= glet'.wake /\ glet'.wake <= Interval
          /\ NextStart = glet.lastrun + Min(NotPast) * Interval]_vars

(* The worker waits for a run scheduled two intervals after the start of  *)
(* the last one: the pass has lasted longer than the interval.             *)
C33_Witness ==
    /\ glet.pc = "wait"
    /\ glet.wake > 0
    /\ last_run # None
    /\ clock + glet.wake = last_run + 2 * Interval

(* A step in which a run that has lasted longer than the interval ends. *)
Overrun == RunEnds /\ clock' > glet.lastrun + Interval

(* C34: after a pass that has taken longer than one polling interval the  *)
(* next run is scheduled immediately, the wait between the runs is zero.   *)
C34_OverrunNoWait == [][Overrun => glet'.wake = 0]_vars

(* C34, amended: after a pass that has taken longer than one polling      *)
(* interval the engine warns and schedules the next run at the first       *)
(* multiple of the interval after lastrun that is not in the past: the     *)
(* wait is less than one interval, and zero only when the pass has lasted  *)
(* a whole number of intervals.                                            *)
C34_OverrunNextMultiple ==
    [][Overrun =>
          /\ DeltatWarnings((glet.lastrun + Interval) - clock') >= 1
          /\ 0 <= glet'.wake /\ glet'.wake < Interval
          /\ NextStart = glet.lastrun + Min(NotPast) * Interval
          /\ glet'.wake = 0 <=> (clock' - glet.lastrun) % Interval = 0]_vars

(* A pass has just ended one instant after the interval had elapsed, and  *)
(* the worker waits for the rest of the second interval.                   *)
C34_Witness ==
    /\ glet.pc = "wait"
    /\ last_run # None
    /\ clock = last_run + Interval + 1
    /\ glet.wake = Interval - 1
    /\ glet.wake > 0

(* The items of a feed on which _process_item does not raise, in the      *)
(* order of the feed.                                                      *)
Parsed(feed) == SelectSeq(feed, LAMBDA item : ~ Raises(item))

(* The pass over the feed leaves the table and emits the updates of the   *)
(* pass over the feed without its failing items.                           *)
AsIfAbsent(feed) ==
    PollingLoopItems(mtable, age_out.default, feed, glet.now, Threshold, <<>>)
        = PollingLoopItems(mtable, age_out.default, Parsed(feed), glet.now,
                           Threshold, <<>>)

(* C35: a parse error that _process_item raises on an item of the feed    *)
(* skips that item only: the loop goes on with the next item, the pass is  *)
(* not aborted and not retried, error.polling is not incremented, and the  *)
(* other items are classified and emitted, in the order of the feed, as    *)
(* if the failing item were not in the feed.                               *)
C35_ParseErrorSkipped ==
    /\ [](AtStartOfPass => \A feed \in RawFeeds : AsIfAbsent(feed))
    /\ [][PollItemRaises =>
            /\ glet'.pc = "items"
            /\ glet'.n = glet.n + 1
            /\ glet'.tryn = glet.tryn
            /\ glet'.now = glet.now
            /\ statistics' = statistics
            /\ mtable' = mtable
            /\ last_run' = last_run]_vars

(* A pass has met an item that does not parse and the indicator after it: *)
(* the table holds a record written in this pass after the parse error.    *)
C35_Witness ==
    /\ InPass
    /\ glet.n = MaxFeedLen
    /\ hist.observed = {Tracked}
    /\ Tracked \in DOMAIN mtable
    /\ mtable[Tracked]._last_run = glet.now
    /\ mtable[Tracked].first_seen = glet.now
    /\ last_run # None
    /\ statistics.error_polling = 0
    /\ \E feed \in RawFeeds :
          /\ Len(feed) = MaxFeedLen
          /\ Raises(feed[1])
          /\ ~ Raises(feed[Len(feed)])
          /\ PollingLoopItems(<<>>, age_out.default, feed, glet.now,
                              Threshold, <<>>).table = mtable

(* A step in which the emit of the age-out worker returns and the worker  *)
(* writes the record back: basepoller.py:258-259.                          *)
WriteBack == ageout_glet.pc = "emit" /\ ageout_glet'.pc # "emit"

(* The record of the table is still the one that the age-out pass read. *)
AsRead(i) == i \in DOMAIN mtable /\ mtable[i] = ageout_glet.todo[i]

(* C36: under every interleaving of the poll worker and the age-out       *)
(* worker, without rebuild, an indicator whose record is marked withdrawn  *)
(* or is absent has withdraw as the last event emitted for it, or no       *)
(* event; and the record that the age-out worker writes back after its     *)
(* emit never replaces a record that the poll worker has written since     *)
(* the age-out worker read it.                                             *)
C36_TableMatchesEmitted ==
    /\ []((Tracked \notin DOMAIN mtable \/ IsWithdrawn(mtable, Tracked))
             => hist.last \in {"withdraw", "none"})
    /\ [][(WriteBack /\ ageout_glet'.pc # "done")
             => AsRead(ageout_glet.cur)]_vars

(* The turn of the pass under way on indicator i, observed with the       *)
(* attributes of its record.                                               *)
TurnUnchanged(i) ==
    ProcessItem(mtable, age_out.default,
                [indicator |-> i, confidence |-> mtable[i].confidence],
                glet.now, Threshold)

(* Indicator i, for which an attempt of the run has emitted update, is in *)
(* feed for the pass under way: observed with unchanged attributes it gets *)
(* no update and keeps its first_seen.                                     *)
SentInFeed(i) ==
    /\ i \in DOMAIN mtable
    /\ HasMask(StatusOf(i), F_MASK)
    /\ ~ TurnUnchanged(i).update
    /\ TurnUnchanged(i).table[i].first_seen = mtable[i].first_seen

InRetry == InPass /\ glet.tryn > 0

(* The retries of the runs after the first one. *)
C38_LaterRuns ==
    []((InRetry /\ last_run # None) => \A i \in hist.sent : SentInFeed(i))

(* C38: the retry of a pass that has failed after it had written and      *)
(* emitted some indicators finds those indicators in feed: it emits no     *)
(* second update for them while their attributes are unchanged and does    *)
(* not reset their first_seen, in the first run as in the later ones.      *)
C38_RetryInFeed == [](InRetry => \A i \in hist.sent : SentInFeed(i))

(* An attempt of the poll worker is in progress or backing off. *)
Busy == glet.pc \in {"items", "backoff"}

(* The wait between two runs returns before its timeout and a pass        *)
(* starts.                                                                 *)
ExtraPass == glet.pc = "wait" /\ glet.wake > 0 /\ glet'.pc = "items"

(* C39: a hup that arrives while a pass is in progress or backing off is  *)
(* not lost.  poll_event is set exactly when a hup has arrived since it    *)
(* was last cleared; no step but the end of the wait between two runs      *)
(* clears it, so it is still set when the worker reaches that wait; the    *)
(* wait can then return at once, and when it returns it starts a pass and  *)
(* clears the event; a pass that starts before the timeout of the wait     *)
(* uses up every hup received till then, however many, so the next pass    *)
(* before a timeout needs a new hup.                                       *)
C39_HupNotLost ==
    /\ [](poll_event <=> hist.hups > 0)
    /\ [][(poll_event /\ ~ poll_event') =>
            (glet.pc = "wait" /\ glet'.pc # "wait")]_vars
    /\ [](hist.busy > 0 => poll_event)
    /\ []((glet.pc = "wait" /\ poll_event) => ENABLED RunStart(0))
    /\ [][(glet.pc = "wait" /\ poll_event /\ glet'.pc # "wait") =>
            (glet'.pc = "items" /\ ~ poll_event' /\ hist'.hups = 0)]_vars
    /\ [][ExtraPass => (hist.hups >= 1 /\ hist'.hups = 0 /\ ~ poll_event')]_vars

(* A pass that the wait has started after a run of more than one attempt  *)
(* in which MaxHups calls of hup arrived, all of them while the run was in *)
(* progress or backing off: one pass for all of them, the event cleared.   *)
C39_Witness ==
    /\ glet.pc = "items"
    /\ glet.tryn = 0
    /\ hist.served = MaxHups
    /\ hist.hups = 0
    /\ ~ poll_event
    /\ statistics.error_polling > 0

(***************************************************************************)
(*                    PROPERTIES OF THE TAXII CLIENT                       *)
(***************************************************************************)
(* The place in the sequence s where x comes first. *)
FirstAt(s, x) ==
    CHOOSE k \in DOMAIN s : s[k] = x /\ \A j \in DOMAIN s : j < k => s[j] # x

(* The result holds the ids that were received, each once, in the order   *)
(* in which they were first received.                                      *)
InReceptionOrder(result, received) ==
    /\ {result[k] : k \in DOMAIN result} =
           {received[k] : k \in DOMAIN received}
    /\ \A i, j \in DOMAIN result :
           i < j => /\ result[i] # result[j]
                    /\ FirstAt(received, result[i])
                           < FirstAt(received, result[j])

(* A part of the poll result arrives. *)
PartArrives ==
    taxii.pc \in {"poll", "fulfillment"} /\ taxii'.tm # taxii.tm

(* While the part that arrives says more, the client asks for the next    *)
(* part of the same result, and it returns at the first part that says no  *)
(* more.                                                                   *)
C23_Fulfillment ==
    [][PartArrives =>
          IF taxii'.tm.more
          THEN /\ taxii'.pc = "fulfillment"
               /\ taxii'.request =
                      [kind |-> "fulfillment",
                       result_id |-> taxii'.tm.result_id,
                       result_part_number |->
                           taxii'.tm.result_part_number + 1]
          ELSE /\ taxii'.pc = "loop"
               /\ taxii'.request = taxii.request]_vars

(* C23: while the last part received says more, the client asks for the   *)
(* part result_part_number+1 of the same result_id, and stops at the first *)
(* part that says no more; the indicators of all the parts are returned to *)
(* the poller loop in the order in which they were received.               *)
C23_PagedPoll ==
    /\ C23_Fulfillment
    /\ [](taxii.pc = "loop" =>
             InReceptionOrder(taxii.result, taxii.received))

(* C24: last_taxii_run is set, to the now of the pass, only by the step   *)
(* in which the last part of the poll result arrives, after discovery,     *)
(* collection check, poll request and every fulfillment; a step that fails *)
(* leaves it alone. So the window of every poll request begins at the end  *)
(* of the window of the last poll that succeeded, at now less the initial  *)
(* interval when none has, and ends at now.                                *)
C24_LastTaxiiRun ==
    /\ [][taxii'.last_taxii_run # taxii.last_taxii_run =>
             /\ PartArrives
             /\ ~ taxii'.tm.more
             /\ taxii'.pc = "loop"
             /\ taxii.collection_mgmt_service # None
             /\ taxii.poll_service # None
             /\ taxii'.last_taxii_run = taxii.now
             /\ statistics' = statistics]_vars
    /\ [](taxii.pc \in {"poll", "fulfillment"} =>
             /\ taxii.end = taxii.now \div MsPerSec
             /\ taxii.begin =
                    IF taxii.last_end = None
                    THEN taxii.now \div MsPerSec - initial_interval
                    ELSE taxii.last_end)

(* A poll request is under way in a retry that follows a failure, after a *)
(* poll that succeeded at an earlier second.                               *)
C24_Witness ==
    /\ taxii.pc = "poll"
    /\ taxii.tryn > 0
    /\ taxii.last_end # None
    /\ taxii.begin < taxii.end

(* The response that arrives breaks the contract: a discovery response    *)
(* without collection management service, a collection information         *)
(* response without the collection, or with it but without polling service *)
(* instances or not as a data feed.                                        *)
ContractBroken ==
    \/ /\ taxii.pc = "discovery" /\ taxii'.pc # "discovery"
       /\ SVC_COLLECTION_MANAGEMENT \notin taxii'.service_instances
    \/ /\ taxii.pc = "collection_information"
       /\ taxii'.pc # "collection_information"
       /\ \/ ~ taxii'.tci.found
          \/ taxii'.tci.polling_service_instances \in {None, 0}
          \/ taxii'.tci.collection_type # CT_DATA_FEED

(* C25: a response that breaks the contract fails the attempt before any  *)
(* poll request has left; the failure adds one to error.polling and the    *)
(* run goes on as after any polling error, with a retry after the back-off *)
(* while attempts are left and with the end of the run when none is.       *)
C25_ContractViolation ==
    [][ContractBroken =>
          /\ statistics'.error_polling = statistics.error_polling + 1
          /\ taxii'.request = taxii.request
          /\ taxii'.request.kind \in {"discovery", "collection_information"}
          /\ taxii'.begin = None
          /\ taxii'.last_taxii_run = taxii.last_taxii_run
          /\ taxii'.pc = IF taxii.tryn + 1 < num_retries
                         THEN "backoff" ELSE "wait"
          /\ taxii'.tryn = IF taxii.tryn + 1 < num_retries
                           THEN taxii.tryn + 1 ELSE 0]_vars

(* The attempt has failed on a collection that has a polling service but  *)
(* is not a data feed, and waits for its retry.                            *)
C25_Witness ==
    /\ taxii.pc = "backoff"
    /\ taxii.tci.found
    /\ taxii.tci.polling_service_instances = 1
    /\ taxii.tci.collection_type # CT_DATA_FEED
    /\ statistics.error_polling = 1
    /\ taxii.request.kind = "collection_information"

(* C26: the address observable of an indicator is decoded with type IPv6  *)
(* when its category is ipv6-addr and with type IPv4 for every other       *)
(* category.                                                               *)
C26_AddressType ==
    \A id \in DOMAIN taxii.indicators :
        taxii.indicators[id].type =
            IF taxii.indicators[id].category = "ipv6-addr"
            THEN "IPv6" ELSE "IPv4"

(***************************************************************************)
(*                     PROPERTIES OF THE AGGREGATOR                        *)
(***************************************************************************)
Normal(S) == {c \in S : c.level < WL_LEVEL}
Whitelisted(S) == {c \in S : c.level = WL_LEVEL}

Covered(ranges) == {x \in Addrs : \E u \in ranges : u.start <= x /\ x <= u.end}

(* The addresses of [lo, hi] in a normal interval and in no whitelist one. *)
Expected(S, lo, hi) ==
    {x \in lo..hi : /\ STcover(Normal(S), x) # {}
                    /\ STcover(Whitelisted(S), x) = {}}

(* Every window of the line, None standing for its ends. *)
Windows == (Addrs \cup {None}) \X (Addrs \cup {None})

(* The types a value can carry besides IPv4, "none" for a value without   *)
(* a type.                                                                 *)
OtherTypes == {"IPv6", "domain", "URL", "none"}

(* C22: an update whose value is not of type IPv4, and a withdraw for an  *)
(* indicator and source that are not in the table, leave the table and the *)
(* interval store as they are and emit neither update nor withdraw.        *)
C22_IgnoredInputs ==
    \A source \in Sources, indicator \in ValidIndicators :
        /\ \A vtype \in OtherTypes :
              LET r == filtered_update(atable, st, source, indicator, vtype)
              IN  /\ r.table = atable
                  /\ r.st = st
                  /\ r.updates = EmptyBag
                  /\ r.withdraws = EmptyBag
        /\ Key(indicator, source) \notin DOMAIN atable =>
              LET r == filtered_withdraw(atable, st, source, indicator)
              IN  /\ r.table = atable
                  /\ r.st = st
                  /\ r.updates = EmptyBag
                  /\ r.withdraws = EmptyBag

(* The table holds an indicator of one source, and not the same indicator *)
(* of another source, which can withdraw it all the same.                  *)
C22_Witness ==
    /\ st # {}
    /\ \E s1, s2 \in Sources, indicator \in ValidIndicators :
          /\ Key(indicator, s1) \in DOMAIN atable
          /\ Key(indicator, s2) \notin DOMAIN atable

(* The ranges sent by get_all: _send_indicators over the whole line. *)
FullLine(S) == _calc_ipranges(S, 0, max_endpoint)

(* C5: over the whole line, the ranges of _calc_ipranges cover exactly the *)
(* addresses that lie in a non-whitelisted interval and in no whitelist    *)
(* interval, and the id-set of each range is the set of non-whitelisted    *)
(* intervals covering its addresses.                                       *)
C5_ExactCover ==
    /\ Covered(FullLine(st)) = Expected(st, 0, max_endpoint)
    /\ \A u \in FullLine(st) : \A x \in u.start..u.end :
          u.uuids = {c.id : c \in STcover(Normal(st), x)}

(* What every call of the two handlers does in the current state.         *)
HandlerCalls ==
    {filtered_update(atable, st, s, i, "IPv4") :
        s \in Sources, i \in ValidIndicators}
    \cup {filtered_withdraw(atable, st, k[2], k[1]) : k \in DOMAIN atable}

(* C6: in every window, no range of _calc_ipranges contains an address     *)
(* covered by a whitelist interval or carries the id of a whitelist        *)
(* interval, and so does no range a handler emits as update.               *)
NoWhitelist(S, ranges) ==
    \A u \in ranges :
       /\ \A x \in u.start..u.end : STcover(Whitelisted(S), x) = {}
       /\ u.uuids \cap {c.id : c \in Whitelisted(S)} = {}

C6_NoWhitelistedAddress ==
    /\ \A w \in Windows : NoWhitelist(st, _calc_ipranges(st, w[1], w[2]))
    /\ \A r \in HandlerCalls : NoWhitelist(r.st, BagToSet(r.updates))

(* A whitelist interval overlaps a normal one, and ranges are produced.    *)
C6_Witness ==
    /\ \E w \in Whitelisted(st), c \in Normal(st) :
          c.start <= w.end /\ w.start <= c.end /\ c.end > w.end
    /\ FullLine(st) # {}

(* C7: in every window, every range of _calc_ipranges has start <= end and *)
(* a non-empty id-set, and the ranges of one result are pairwise disjoint. *)
WellFormed(ranges) ==
    /\ \A u \in ranges : u.start <= u.end /\ u.uuids # {}
    /\ \A u \in ranges, o \in ranges :
          u # o => (u.end < o.start \/ o.end < u.start)

C7_RangesWellFormed ==
    \A w \in Windows : WellFormed(_calc_ipranges(st, w[1], w[2]))

(* A result of two ranges, the second starting right after the first.      *)
C7_Witness ==
    \E u \in FullLine(st), o \in FullLine(st) : o.start = u.end + 1

(* The store holds one interval, of a non-whitelisted source, and the      *)
(* range rng lies strictly inside it.                                      *)
OnlyOuter(rng) ==
    /\ Cardinality(DOMAIN atable) = 1
    /\ \A k \in DOMAIN atable : k[2] \notin whitelists
    /\ \E o \in st : st = {o} /\ o.start < rng[1] /\ rng[2] < o.end

Outer == CHOOSE o \in st : TRUE

(* C8: when a whitelisted source adds [c, d] strictly inside the single    *)
(* interval [a, b] (id u1) of a normal source, filtered_update emits the   *)
(* ranges [a, c-1] {u1} and [d+1, b] {u1}, and the output over the whole   *)
(* line then consists of these two ranges.                                 *)
C8_WhitelistHole ==
    \A source \in whitelists, indicator \in ValidIndicators :
       LET rng == _range_from_indicator(indicator)
           r == filtered_update(atable, st, source, indicator, "IPv4")
           hole == {MWUpdate(Outer.start, rng[1] - 1, {Outer.id}),
                    MWUpdate(rng[2] + 1, Outer.end, {Outer.id})}
       IN  OnlyOuter(rng) => /\ r.updates = SetToBag(hole)
                             /\ FullLine(r.st) = hole

(* C9: when S1 holds [a, b] (id u1) and another non-whitelisted source     *)
(* adds [c, d] (id u2) strictly inside it, filtered_update emits update    *)
(* for exactly [a, c-1] {u1}, [c, d] {u1, u2} and [d+1, b] {u1}.           *)
C9_Union ==
    \A source \in Sources \ whitelists, indicator \in ValidIndicators :
       LET rng == _range_from_indicator(indicator)
           r == filtered_update(atable, st, source, indicator, "IPv4")
           u1 == Outer.id
           u2 == r.table[Key(indicator, source)]._id
       IN  (OnlyOuter(rng) /\ \A k \in DOMAIN atable : k[2] # source)
           => r.updates = SetToBag({MWUpdate(Outer.start, rng[1] - 1, {u1}),
                                    MWUpdate(rng[1], rng[2], {u1, u2}),
                                    MWUpdate(rng[2] + 1, Outer.end, {u1})})

(* S1 holds an interval and nothing else is stored; the union can follow.  *)
C9_Witness ==
    \E indicator \in ValidIndicators :
       /\ OnlyOuter(_range_from_indicator(indicator))
       /\ \E k \in DOMAIN atable : k[2] = "S1"

(* The store of the union: [a, b] of one normal source and [c, d], of      *)
(* another normal source, strictly inside it.                              *)
UnionStore(k1, k2) ==
    /\ DOMAIN atable = {k1, k2}
    /\ k1[2] \notin whitelists /\ k2[2] \notin whitelists /\ k1[2] # k2[2]
    /\ _range_from_indicator(k1[1])[1] < _range_from_indicator(k2[1])[1]
    /\ _range_from_indicator(k2[1])[2] < _range_from_indicator(k1[1])[2]

(* C10: after the union, filtered_withdraw of the inner interval [c, d]    *)
(* emits withdraw for the boundary ranges [a, c-1] and [d+1, b] and        *)
(* exactly one update, for the range [a, b] {u1}.                          *)
C10_WithdrawInner ==
    \A k1 \in DOMAIN atable, k2 \in DOMAIN atable :
       LET o == _range_from_indicator(k1[1])
           i == _range_from_indicator(k2[1])
           r == filtered_withdraw(atable, st, k2[2], k2[1])
       IN  UnionStore(k1, k2)
           => /\ r.updates = SetToBag({MWUpdate(o[1], o[2], {atable[k1]._id})})
              /\ \A u \in {MWUpdate(o[1], i[1] - 1, {atable[k1]._id}),
                           MWUpdate(i[2] + 1, o[2], {atable[k1]._id})} :
                    BagIn(u, r.withdraws)

(* The union has been made: both intervals are stored.                     *)
C10_Witness ==
    \E k1 \in DOMAIN atable, k2 \in DOMAIN atable :
       UnionStore(k1, k2) /\ Cardinality(st) = 2

(* C37: after any sequence of filtered_update and filtered_withdraw calls *)
(* the view that a downstream node builds from the emitted events, an      *)
(* update adding or replacing the range of its indicator string and a      *)
(* withdraw removing it, is the full recomputation _calc_ipranges over the *)
(* whole line of the current store, in ranges and in id-sets.              *)
C37_ViewIsRecomputation == view = FullLine(st)

=============================================================================
